---- MODULE Spec2Model ----
(***************************************************************************)
(* Model of the interview assistant: the text normaliser                   *)
(* (ResumeParser.clean_text), the difficulty classifier                    *)
(* (QuestionGenerator._extract_difficulty_and_clean), the JSON response    *)
(* parsers, the Streamlit session store written by generate_questions, the *)
(* upload of a resume file (ResumeParser.parse_resume), the resume scores  *)
(* of utils/helpers.py and the methods of the generator called by name.    *)
(*                                                                         *)
(* A Python str is a sequence of one-character strings.  The two bullet    *)
(* glyphs are written "U+25CF" (black circle) and "U+2022" (bullet).       *)
(***************************************************************************)
EXTENDS Integers, Sequences, FiniteSets, TLC

VARIABLES pc, question_items, classified, text, cleaned, recleaned,
          completion, example_filter, parsed_questions, parsed_insights, parsed_ats,
          api_key, client, resume_text, request, prompt, llm_calls, llm_outcome,
          messages, response_content, session_state, stored_from, returned,
          uploaded_file, upload,
          score_words, scores, level, added, scores_added,
          method_call, method_result

classifyVars == <<question_items, classified>>

cleanVars == <<text, cleaned, recleaned>>

parseVars == <<completion, example_filter, parsed_questions, parsed_insights, parsed_ats>>

sessionVars == <<api_key, client, resume_text, request, prompt, llm_calls, llm_outcome, messages,
                 response_content, session_state, stored_from, returned>>

uploadVars == <<uploaded_file, upload>>

scoreVars == <<score_words, scores, level, added, scores_added>>

callVars == <<method_call, method_result>>

helperVars == <<uploadVars, scoreVars, callVars>>

vars == <<pc, classifyVars, cleanVars, parseVars, sessionVars, helperVars>>

(***************************************************************************)
(* Bounds of the model.                                                    *)
(***************************************************************************)
MaxItems == 3

MaxTextLen == 5

MaxFilter == 2

\* the most words of a scored resume text
MaxWords == 2

\* the most pages or paragraphs of an uploaded file
MaxParts == 2

\* the largest question_count a caller of QuestionGenerator.generate_questions passes
MaxCount == 11

(***************************************************************************)
(* Python str primitives.                                                  *)
(***************************************************************************)
LowerLetters == <<"a", "b", "c", "d", "e", "f", "g", "h", "i", "j", "k", "l", "m",
                  "n", "o", "p", "q", "r", "s", "t", "u", "v", "w", "x", "y", "z">>

UpperLetters == <<"A", "B", "C", "D", "E", "F", "G", "H", "I", "J", "K", "L", "M",
                  "N", "O", "P", "Q", "R", "S", "T", "U", "V", "W", "X", "Y", "Z">>

\* str.isspace for one character
Whitespace == {" ", "\t", "\n", "\r"}

SetMin(S) == CHOOSE x \in S : \A y \in S : x <= y

SetMax(S) == CHOOSE x \in S : \A y \in S : x >= y

UpperChar(c) ==
    IF \E i \in 1..26 : LowerLetters[i] = c
    THEN UpperLetters[CHOOSE i \in 1..26 : LowerLetters[i] = c]
    ELSE c

\* str.upper()
StrUpper(s) == [i \in 1..Len(s) |-> UpperChar(s[i])]

\* sub occurs in s at (1-based) position i
StartsAt(s, sub, i) ==
    /\ i >= 1
    /\ i + Len(sub) - 1 <= Len(s)
    /\ \A k \in 1..Len(sub) : s[i + k - 1] = sub[k]

\* str.find(sub): 0-based index of the first occurrence, -1 when absent
StrFind(s, sub) ==
    LET hits == {i \in 1..Len(s) : StartsAt(s, sub, i)}
    IN  IF hits = {} THEN -1 ELSE SetMin(hits) - 1

\* sub in s
StrIn(sub, s) == StrFind(s, sub) # -1

RECURSIVE ReplaceFrom(_, _, _, _)
ReplaceFrom(s, old, new, i) ==
    IF i > Len(s) THEN <<>>
    ELSE IF StartsAt(s, old, i)
         THEN new \o ReplaceFrom(s, old, new, i + Len(old))
         ELSE <<s[i]>> \o ReplaceFrom(s, old, new, i + 1)

\* str.replace(old, new) for a non-empty old: left to right, non-overlapping
StrReplace(s, old, new) == ReplaceFrom(s, old, new, 1)

\* str.strip()
StrStrip(s) ==
    LET keep == {i \in 1..Len(s) : s[i] \notin Whitespace}
    IN  IF keep = {} THEN <<>> ELSE SubSeq(s, SetMin(keep), SetMax(keep))

RECURSIVE SplitJoinFrom(_, _)
SplitJoinFrom(s, i) ==
    IF i > Len(s) THEN <<>>
    ELSE IF s[i] \in Whitespace
         THEN (IF s[i - 1] \in Whitespace THEN <<>> ELSE <<" ">>) \o SplitJoinFrom(s, i + 1)
         ELSE <<s[i]>> \o SplitJoinFrom(s, i + 1)

\* ' '.join(s.split())
SplitJoin(s) == SplitJoinFrom(StrStrip(s), 1)

(***************************************************************************)
(* QuestionGenerator._extract_difficulty_and_clean                         *)
(***************************************************************************)
NoneText == [isNone |-> TRUE, text |-> <<>>]

SomeText(s) == [isNone |-> FALSE, text |-> s]

LBr == <<"[">>

RBr == <<"]">>

EASY == <<"E", "A", "S", "Y">>

easy == <<"e", "a", "s", "y">>

HARD == <<"H", "A", "R", "D">>

hard == <<"h", "a", "r", "d">>

MEDIUM == <<"M", "E", "D", "I", "U", "M">>

medium == <<"m", "e", "d", "i", "u", "m">>

Bracketed(w) == LBr \o w \o RBr

\* the two replace() calls and the strip() of one branch
StripMarker(question_text, upperForm, lowerForm) ==
    StrStrip(StrReplace(StrReplace(question_text, upperForm, <<>>), lowerForm, <<>>))

\* lines 230-232: drop residual brackets, normalise whitespace
FinalClean(clean_question) ==
    SplitJoin(StrStrip(StrReplace(StrReplace(clean_question, LBr, <<>>), RBr, <<>>)))

Labelled(difficulty, clean_question) ==
    [difficulty |-> difficulty, clean_question |-> SomeText(FinalClean(clean_question))]

UpperForm(difficulty) ==
    IF difficulty = "Easy" THEN EASY ELSE IF difficulty = "Hard" THEN HARD ELSE MEDIUM

LowerForm(difficulty) ==
    IF difficulty = "Easy" THEN easy ELSE IF difficulty = "Hard" THEN hard ELSE medium

\* a slip in the order of the elif chain: [MEDIUM] tested before [HARD]
BracketedDifficulty_MediumFirst(question_upper) ==
    IF StrIn(Bracketed(EASY), question_upper) THEN "Easy"
    ELSE IF StrIn(Bracketed(MEDIUM), question_upper) THEN "Medium"
    ELSE IF StrIn(Bracketed(HARD), question_upper) THEN "Hard"
    ELSE "None"

\* the conditions of the if/elif chain of lines 207-213
BracketedDifficulty(question_upper) ==
    IF StrIn(Bracketed(EASY), question_upper) THEN "Easy"
    ELSE IF StrIn(Bracketed(HARD), question_upper) THEN "Hard"
    ELSE IF StrIn(Bracketed(MEDIUM), question_upper) THEN "Medium"
    ELSE "None"

\* an off-by-one in the window: <= 20 instead of < 20
BareWithin_Inclusive(question_upper, keyword) ==
    StrIn(keyword, question_upper) /\ StrFind(question_upper, keyword) <= 20

\* 'EASY' in question_upper and question_upper.find('EASY') < 20
BareWithin(question_upper, keyword) ==
    StrIn(keyword, question_upper) /\ StrFind(question_upper, keyword) < 20

\* the conditions of the if/elif chain of lines 218-227
BareDifficulty(question_upper) ==
    IF BareWithin(question_upper, EASY) THEN "Easy"
    ELSE IF BareWithin(question_upper, HARD) THEN "Hard"
    ELSE IF BareWithin(question_upper, MEDIUM) THEN "Medium"
    ELSE "None"

_extract_difficulty_and_clean(question_text) ==
    LET question_upper == StrUpper(question_text)
        bracketed == BracketedDifficulty(question_upper)
        bare == BareDifficulty(question_upper)
    IN  IF bracketed # "None"
          THEN Labelled(bracketed,
                        StripMarker(question_text, Bracketed(UpperForm(bracketed)),
                                    Bracketed(LowerForm(bracketed))))
        ELSE IF bare # "None"
          THEN Labelled(bare, StripMarker(question_text, UpperForm(bare), LowerForm(bare)))
        ELSE [difficulty |-> "None", clean_question |-> NoneText]

(***************************************************************************)
(* ResumeParser.clean_text.  \s is Whitespace; a run is a maximal block    *)
(* of consecutive characters of one class.                                 *)
(***************************************************************************)
BlackCircle == "U+25CF"

Bullet == "U+2022"

ListMarkers == {Bullet, "-"}

\* last index of the run of characters of S that starts at i (i - 1: no run)
RECURSIVE RunEnd(_, _, _)
RunEnd(s, i, S) ==
    IF i >= 1 /\ i <= Len(s) /\ s[i] \in S THEN RunEnd(s, i + 1, S) ELSE i - 1

\* re.sub of a run of at least min characters of S by rep
RECURSIVE SubRuns(_, _, _, _, _)
SubRuns(s, S, min, rep, i) ==
    IF i > Len(s) THEN <<>>
    ELSE LET j == RunEnd(s, i, S)
         IN  IF j - i + 1 >= min /\ j >= i
             THEN rep \o SubRuns(s, S, min, rep, j + 1)
             ELSE <<s[i]>> \o SubRuns(s, S, min, rep, i + 1)

\* re.sub(glyph + r'\s*', '\u2022 ', text)
RECURSIVE SubGlyph(_, _, _)
SubGlyph(s, glyph, i) ==
    IF i > Len(s) THEN <<>>
    ELSE IF s[i] = glyph
         THEN <<Bullet, " ">> \o SubGlyph(s, glyph, RunEnd(s, i + 1, Whitespace) + 1)
         ELSE <<s[i]>> \o SubGlyph(s, glyph, i + 1)

\* re.sub(r'\s+([\u2022\-])', r' \1', text)
RECURSIVE SpaceBefore(_, _)
SpaceBefore(s, i) ==
    IF i > Len(s) THEN <<>>
    ELSE LET j == RunEnd(s, i, Whitespace)
         IN  IF j >= i /\ j + 1 <= Len(s) /\ s[j + 1] \in ListMarkers
             THEN <<" ", s[j + 1]>> \o SpaceBefore(s, j + 2)
             ELSE <<s[i]>> \o SpaceBefore(s, i + 1)

\* re.sub(r'([\u2022\-])\s+', r'\1 ', text)
RECURSIVE SpaceAfter(_, _)
SpaceAfter(s, i) ==
    IF i > Len(s) THEN <<>>
    ELSE LET j == RunEnd(s, i + 1, Whitespace)
         IN  IF s[i] \in ListMarkers /\ j >= i + 1
             THEN <<s[i], " ">> \o SpaceAfter(s, j + 1)
             ELSE <<s[i]>> \o SpaceAfter(s, i + 1)

\* line 41 left out: only the black circle is rewritten
NormalizeBullets_CircleOnly(s) == SubGlyph(s, BlackCircle, 1)

\* lines 40-41
NormalizeBullets(s) == SubGlyph(SubGlyph(s, BlackCircle, 1), Bullet, 1)

clean_text(raw) ==
    IF raw = <<>> THEN <<>>
    ELSE LET t1 == SubRuns(raw, {"\n"}, 1, <<" ">>, 1)
             t2 == SubRuns(t1, {" "}, 2, <<" ">>, 1)
             t3 == StrStrip(t2)
             t4 == NormalizeBullets(t3)
             t5 == SpaceBefore(t4, 1)
             t6 == SpaceAfter(t5, 1)
         IN  SubRuns(t6, {" "}, 1, <<" ">>, 1)

(***************************************************************************)
(* json.loads.  A decoded value is [t, v]: t is "obj" (v: the members      *)
(* [k, v] in document order), "arr" (v: the elements), "str" (v: the       *)
(* characters), "num" (v: the lexeme) or "null", "true", "false", "NaN",   *)
(* "Infinity", "-Infinity" (v: empty).  \u escapes are not modelled.       *)
(***************************************************************************)
JsonWhitespace == {" ", "\t", "\n", "\r"}

ControlChars == {"\t", "\n", "\r"}

Digits == {"0", "1", "2", "3", "4", "5", "6", "7", "8", "9"}

\* the character at index i, "" past either end
At(s, i) == IF i \in 1..Len(s) THEN s[i] ELSE ""

JVal(t, v) == [t |-> t, v |-> v]

EmptyList == JVal("arr", <<>>)

EmptyDict == JVal("obj", <<>>)

JOk(val, next) == [ok |-> TRUE, val |-> val, next |-> next]

JFail == [ok |-> FALSE, val |-> JVal("null", <<>>), next |-> 0]

SkipWs(s, i) == RunEnd(s, i, JsonWhitespace) + 1

\* the simple escapes of a JSON string
Unescape(c) ==
    IF c = "n" THEN "\n" ELSE IF c = "t" THEN "\t" ELSE IF c = "r" THEN "\r" ELSE c

\* the characters of a string up to its closing quote, from index j
RECURSIVE ScanString(_, _, _)
ScanString(s, j, acc) ==
    IF j > Len(s) THEN JFail
    ELSE IF s[j] = "\"" THEN JOk(JVal("str", acc), j + 1)
    ELSE IF s[j] = "\\"
         THEN IF At(s, j + 1) \in {"\"", "\\", "/", "n", "t", "r"}
              THEN ScanString(s, j + 2, Append(acc, Unescape(s[j + 1])))
              ELSE JFail
    ELSE IF s[j] \in ControlChars THEN JFail
    ELSE ScanString(s, j + 1, Append(acc, s[j]))

\* last index of the number lexeme that starts at i, i - 1 when there is none:
\* (-?(?:0|[1-9]\d*))(\.\d+)?([eE][-+]?\d+)?
NumberEnd(s, i) ==
    LET d == IF At(s, i) = "-" THEN i + 1 ELSE i
        intEnd == IF At(s, d) = "0" THEN d
                  ELSE IF At(s, d) \in Digits THEN RunEnd(s, d, Digits)
                  ELSE i - 1
        fracEnd == IF At(s, intEnd + 1) = "." /\ At(s, intEnd + 2) \in Digits
                   THEN RunEnd(s, intEnd + 2, Digits)
                   ELSE intEnd
        e == IF At(s, fracEnd + 2) \in {"+", "-"} THEN fracEnd + 3 ELSE fracEnd + 2
        expEnd == IF At(s, fracEnd + 1) \in {"e", "E"} /\ At(s, e) \in Digits
                  THEN RunEnd(s, e, Digits)
                  ELSE fracEnd
    IN  IF intEnd < i THEN i - 1 ELSE expEnd

Chars_null == <<"n", "u", "l", "l">>

Chars_true == <<"t", "r", "u", "e">>

Chars_false == <<"f", "a", "l", "s", "e">>

Chars_NaN == <<"N", "a", "N">>

Chars_Infinity == <<"I", "n", "f", "i", "n", "i", "t", "y">>

RECURSIVE ParseValue(_, _)
RECURSIVE ParseMembers(_, _, _)
RECURSIVE ParseElements(_, _, _)

\* the members of an object; j is where a key has to start
ParseMembers(s, j, acc) ==
    IF At(s, j) # "\"" THEN JFail
    ELSE LET key == ScanString(s, j + 1, <<>>)
         IN  IF ~key.ok THEN JFail
             ELSE LET c == SkipWs(s, key.next)
                  IN  IF At(s, c) # ":" THEN JFail
                      ELSE LET val == ParseValue(s, SkipWs(s, c + 1))
                           IN  IF ~val.ok THEN JFail
                               ELSE LET e == SkipWs(s, val.next)
                                        members == Append(acc, [k |-> key.val.v, v |-> val.val])
                                    IN  IF At(s, e) = "}" THEN JOk(JVal("obj", members), e + 1)
                                        ELSE IF At(s, e) = ","
                                             THEN ParseMembers(s, SkipWs(s, e + 1), members)
                                             ELSE JFail

\* the elements of an array; j is where a value has to start
ParseElements(s, j, acc) ==
    LET val == ParseValue(s, j)
    IN  IF ~val.ok THEN JFail
        ELSE LET e == SkipWs(s, val.next)
                 elements == Append(acc, val.val)
             IN  IF At(s, e) = "]" THEN JOk(JVal("arr", elements), e + 1)
                 ELSE IF At(s, e) = "," THEN ParseElements(s, SkipWs(s, e + 1), elements)
                 ELSE JFail

\* the scanner's scan_once at index i
ParseValue(s, i) ==
    LET c == At(s, i)
    IN  IF c = "\"" THEN ScanString(s, i + 1, <<>>)
        ELSE IF c = "{"
             THEN IF At(s, SkipWs(s, i + 1)) = "}"
                  THEN JOk(EmptyDict, SkipWs(s, i + 1) + 1)
                  ELSE ParseMembers(s, SkipWs(s, i + 1), <<>>)
        ELSE IF c = "["
             THEN IF At(s, SkipWs(s, i + 1)) = "]"
                  THEN JOk(EmptyList, SkipWs(s, i + 1) + 1)
                  ELSE ParseElements(s, SkipWs(s, i + 1), <<>>)
        ELSE IF StartsAt(s, Chars_null, i) THEN JOk(JVal("null", <<>>), i + 4)
        ELSE IF StartsAt(s, Chars_true, i) THEN JOk(JVal("true", <<>>), i + 4)
        ELSE IF StartsAt(s, Chars_false, i) THEN JOk(JVal("false", <<>>), i + 5)
        ELSE IF NumberEnd(s, i) >= i
             THEN JOk(JVal("num", SubSeq(s, i, NumberEnd(s, i))), NumberEnd(s, i) + 1)
        ELSE IF StartsAt(s, Chars_NaN, i) THEN JOk(JVal("NaN", <<>>), i + 3)
        ELSE IF StartsAt(s, Chars_Infinity, i) THEN JOk(JVal("Infinity", <<>>), i + 8)
        ELSE IF StartsAt(s, <<"-">> \o Chars_Infinity, i) THEN JOk(JVal("-Infinity", <<>>), i + 9)
        ELSE JFail

\* json.loads(s): [ok |-> FALSE] stands for the JSONDecodeError
json_loads(s) ==
    LET val == ParseValue(s, SkipWs(s, 1))
    IN  IF ~val.ok THEN JFail
        ELSE IF SkipWs(s, val.next) <= Len(s) THEN JFail
        ELSE val

\* dict.get(key, default); of a repeated key the last member counts
DictGet(data, key, default) ==
    LET hits == {i \in DOMAIN data.v : data.v[i].k = key}
    IN  IF hits = {} THEN default ELSE data.v[SetMax(hits)].v

(***************************************************************************)
(* QuestionGenerator._parse_questions, _parse_insights and                 *)
(* _parse_ats_suggestions.  The result is [ret, error, raised]: the value  *)
(* returned, whether st.error was called, whether an exception left the    *)
(* method.  data.get raises AttributeError unless data is a dict.          *)
(***************************************************************************)
Key_questions == <<"q", "u", "e", "s", "t", "i", "o", "n", "s">>

Key_insights == <<"i", "n", "s", "i", "g", "h", "t", "s">>

Key_ats_suggestions == <<"a", "t", "s", "_", "s", "u", "g", "g", "e", "s", "t", "i", "o", "n", "s">>

Returned(value) == [ret |-> value, error |-> FALSE, raised |-> FALSE]

\* the except clause: st.error(...) and the empty default
Reported(default) == [ret |-> default, error |-> TRUE, raised |-> FALSE]

\* the except clause returns [] without the st.error call
_parse_questions_Silent(llm_response) ==
    LET data == json_loads(llm_response)
    IN  IF data.ok /\ data.val.t = "obj"
        THEN Returned(DictGet(data.val, Key_questions, EmptyList))
        ELSE Returned(EmptyList)

_parse_questions(llm_response) ==
    LET data == json_loads(llm_response)
    IN  IF data.ok /\ data.val.t = "obj"
        THEN Returned(DictGet(data.val, Key_questions, EmptyList))
        ELSE Reported(EmptyList)

\* the try block without its except clause: the exception leaves the method
_parse_insights_NoExcept(llm_response) ==
    LET data == json_loads(llm_response)
    IN  IF data.ok /\ data.val.t = "obj"
        THEN Returned(DictGet(data.val, Key_insights, EmptyDict))
        ELSE [ret |-> EmptyDict, error |-> FALSE, raised |-> TRUE]

_parse_insights(llm_response) ==
    LET data == json_loads(llm_response)
    IN  IF data.ok /\ data.val.t = "obj"
        THEN Returned(DictGet(data.val, Key_insights, EmptyDict))
        ELSE Reported(EmptyDict)

_parse_ats_suggestions(llm_response) ==
    LET data == json_loads(llm_response)
    IN  IF data.ok /\ data.val.t = "obj"
        THEN Returned(DictGet(data.val, Key_ats_suggestions, EmptyList))
        ELSE Reported(EmptyList)

(***************************************************************************)
(* The prompt builder.  The categories and difficulty levels are the       *)
(* options of the sidebar's multiselects.                                  *)
(***************************************************************************)
Cat_TechnicalSkills ==
    <<"T", "e", "c", "h", "n", "i", "c", "a", "l", " ", "S", "k", "i", "l", "l", "s">>

Cat_ExperienceProjects ==
    <<"E", "x", "p", "e", "r", "i", "e", "n", "c", "e", " ", "&", " ", "P", "r", "o", "j", "e",
      "c", "t", "s">>

Cat_ProblemSolving ==
    <<"P", "r", "o", "b", "l", "e", "m", " ", "S", "o", "l", "v", "i", "n", "g">>

Cat_Behavioral ==
    <<"B", "e", "h", "a", "v", "i", "o", "r", "a", "l">>

Cat_CodingTest ==
    <<"C", "o", "d", "i", "n", "g", " ", "T", "e", "s", "t">>

CategoryOptions == <<Cat_TechnicalSkills, Cat_ExperienceProjects, Cat_ProblemSolving, Cat_Behavioral, Cat_CodingTest>>

DifficultyOptions == <<"Easy", "Medium", "Hard">>

\* the three numbered lines that follow a category header in the format example
ExampleLines ==
    <<":", "\n", "1", ".", " ", "[", "E", "A", "S", "Y", "]", " ", "[", "Q", "u", "e", "s",
      "t", "i", "o", "n", " ", "t", "e", "x", "t", "]", "\n", "2", ".", " ", "[", "M", "E",
      "D", "I", "U", "M", "]", " ", "[", "Q", "u", "e", "s", "t", "i", "o", "n", " ", "t", "e",
      "x", "t", "]", "\n", "3", ".", " ", "[", "H", "A", "R", "D", "]", " ", "[", "Q", "u",
      "e", "s", "t", "i", "o", "n", " ", "t", "e", "x", "t", "]">>

RECURSIVE _get_format_example(_)
_get_format_example(categories) ==
    IF Len(categories) = 0 THEN <<>>
    ELSE IF Len(categories) = 1 THEN StrUpper(categories[1]) \o ExampleLines
    ELSE StrUpper(categories[1]) \o ExampleLines \o <<"\n", "\n">>
             \o _get_format_example(Tail(categories))

\* the cap of question_count (question_generator.py lines 42-43)
MaxQuestions == 10

\* the character budget of the resume in the prompt (line 110)
ResumeBudget == 5000

\* the max_value of the sidebar's slider (main.py line 101)
SliderMax == 10

\* the resume embedded whole, without the cut of line 110
ResumeSlice_Whole(resume) == resume

\* resume_text[:5000] (line 110)
ResumeSlice(resume) ==
    SubSeq(resume, 1, IF Len(resume) < ResumeBudget THEN Len(resume) ELSE ResumeBudget)

\* the variable parts of the f-string of lines 91-134
_create_question_prompt(resume, question_count, difficulty_filter, category_filter) ==
    [built |-> TRUE,
     question_count |-> question_count,
     difficulty_filter |-> difficulty_filter,
     category_filter |-> category_filter,
     format_example |-> _get_format_example(category_filter),
     resume |-> ResumeSlice(resume),
     coding_test_instruction |-> FALSE]

NoPrompt ==
    [built |-> FALSE, question_count |-> 0, difficulty_filter |-> <<>>, category_filter |-> <<>>,
     format_example |-> <<>>, resume |-> <<>>, coding_test_instruction |-> FALSE]

\* the clamp is left out
ClampCount_Missing(question_count) == question_count

\* generate_questions lines 42-43
ClampCount(question_count) ==
    IF question_count > MaxQuestions THEN MaxQuestions ELSE question_count

\* len(questions) raises TypeError unless questions is a list, a dict or a str
HasLen(value) == value.t \in {"arr", "obj", "str"}

PyLen(value) ==
    IF value.t = "obj" THEN Cardinality({value.v[i].k : i \in DOMAIN value.v})
    ELSE Len(value.v)

(***************************************************************************)
(* Raw texts handed to clean_text: every string of at most MaxTextLen      *)
(* characters over a letter, the whitespace characters, the two bullet     *)
(* glyphs and the hyphen.  The cleaned text is cleaned a second time.      *)
(***************************************************************************)
TextChars == {"a", " ", "\n", "\t", BlackCircle, Bullet, "-"}

Texts == UNION {[1..n -> TextChars] : n \in 0..MaxTextLen}

(***************************************************************************)
(* Payloads handed to the classifier: up to MaxItems items separated by    *)
(* single spaces.  An item is a bracketed marker (upper, lower or mixed    *)
(* case) or a word; some words carry a bare keyword, two are fillers of 18 *)
(* and 19 characters that put the next item at index 19 and 20.            *)
(***************************************************************************)
EasyMarkers == {Bracketed(EASY), Bracketed(easy), Bracketed(<<"E", "a", "s", "y">>)}

HardMarkers == {Bracketed(HARD), Bracketed(hard)}

MediumMarkers == {Bracketed(MEDIUM), Bracketed(<<"M", "e", "d", "i", "u", "m">>)}

Markers == EasyMarkers \cup HardMarkers \cup MediumMarkers

EasyWords == {easy}

HardWords == {HARD, <<"h", "a", "r", "d", "w", "a", "r", "e">>}

MediumWords == {<<"M", "e", "d", "i", "u", "m">>}

KeywordWords == EasyWords \cup HardWords \cup MediumWords

Filler18 == <<"I", "m", "p", "l", "e", "m", "e", "n", "t", "a", "t", "i", "o", "n", "w", "i", "s", "e">>

Filler19 == Filler18 \o <<",">>

PlainWords == {<<"W", "h", "a", "t">>, Filler18, Filler19}

Items == Markers \cup KeywordWords \cup PlainWords

ItemSeqs == UNION {[1..n -> Items] : n \in 0..MaxItems}

RECURSIVE JoinItems(_)
JoinItems(items) ==
    IF Len(items) = 0 THEN <<>>
    ELSE IF Len(items) = 1 THEN items[1]
    ELSE items[1] \o <<" ">> \o JoinItems(Tail(items))

(***************************************************************************)
(* Completions of the LLM.  A body is a well-formed JSON object; it comes  *)
(* as it is, padded with whitespace, inside a markdown fence, after a      *)
(* sentence of prose, cut before its last character, or inside an array.   *)
(* "U+0060" is the backtick.                                               *)
(***************************************************************************)
Body_BatchA ==
    <<"{", "\"", "i", "n", "s", "i", "g", "h", "t", "s", "\"", ":", " ", "{", "\"", "t", "e",
      "c", "h", "n", "o", "l", "o", "g", "i", "e", "s", "\"", ":", " ", "[", "\"", "P", "y",
      "t", "h", "o", "n", "\"", "]", "}", ",", " ", "\"", "q", "u", "e", "s", "t", "i", "o",
      "n", "s", "\"", ":", " ", "[", "{", "\"", "c", "a", "t", "e", "g", "o", "r", "y", "\"",
      ":", " ", "\"", "T", "e", "c", "h", "n", "i", "c", "a", "l", " ", "S", "k", "i", "l",
      "l", "s", "\"", ",", " ", "\"", "d", "i", "f", "f", "i", "c", "u", "l", "t", "y", "\"",
      ":", " ", "\"", "E", "a", "s", "y", "\"", ",", " ", "\"", "q", "u", "e", "s", "t", "i",
      "o", "n", "\"", ":", " ", "\"", "W", "h", "a", "t", " ", "i", "s", " ", "a", " ", "l",
      "i", "s", "t", "?", "\"", "}", ",", " ", "{", "\"", "c", "a", "t", "e", "g", "o", "r",
      "y", "\"", ":", " ", "\"", "T", "e", "c", "h", "n", "i", "c", "a", "l", " ", "S", "k",
      "i", "l", "l", "s", "\"", ",", " ", "\"", "d", "i", "f", "f", "i", "c", "u", "l", "t",
      "y", "\"", ":", " ", "\"", "H", "a", "r", "d", "\"", ",", " ", "\"", "q", "u", "e", "s",
      "t", "i", "o", "n", "\"", ":", " ", "\"", "D", "e", "s", "i", "g", "n", " ", "a", " ",
      "c", "a", "c", "h", "e", "\"", "}", "]", ",", " ", "\"", "a", "t", "s", "_", "s", "u",
      "g", "g", "e", "s", "t", "i", "o", "n", "s", "\"", ":", " ", "[", "\"", "A", "d", "d",
      " ", "k", "e", "y", "w", "o", "r", "d", "s", "\"", "]", "}">>

Body_BatchB ==
    <<"{", "\"", "i", "n", "s", "i", "g", "h", "t", "s", "\"", ":", " ", "{", "\"", "t", "e",
      "c", "h", "n", "o", "l", "o", "g", "i", "e", "s", "\"", ":", " ", "[", "\"", "J", "a",
      "v", "a", "\"", "]", ",", " ", "\"", "t", "o", "t", "a", "l", "_", "y", "e", "a", "r",
      "s", "_", "e", "x", "p", "e", "r", "i", "e", "n", "c", "e", "\"", ":", " ", "8", "}",
      ",", " ", "\"", "q", "u", "e", "s", "t", "i", "o", "n", "s", "\"", ":", " ", "[", "{",
      "\"", "c", "a", "t", "e", "g", "o", "r", "y", "\"", ":", " ", "\"", "C", "o", "d", "i",
      "n", "g", " ", "T", "e", "s", "t", "\"", ",", " ", "\"", "d", "i", "f", "f", "i", "c",
      "u", "l", "t", "y", "\"", ":", " ", "\"", "M", "e", "d", "i", "u", "m", "\"", ",", " ",
      "\"", "q", "u", "e", "s", "t", "i", "o", "n", "\"", ":", " ", "\"", "T", "w", "o", " ",
      "s", "u", "m", "\"", "}", "]", ",", " ", "\"", "a", "t", "s", "_", "s", "u", "g", "g",
      "e", "s", "t", "i", "o", "n", "s", "\"", ":", " ", "[", "\"", "U", "s", "e", " ", "b",
      "u", "l", "l", "e", "t", "s", "\"", ",", " ", "\"", "A", "d", "d", " ", "d", "a", "t",
      "e", "s", "\"", "]", "}">>

Body_QuestionsOnly ==
    <<"{", "\"", "q", "u", "e", "s", "t", "i", "o", "n", "s", "\"", ":", " ", "[", "{", "\"",
      "c", "a", "t", "e", "g", "o", "r", "y", "\"", ":", " ", "\"", "B", "e", "h", "a", "v",
      "i", "o", "r", "a", "l", "\"", ",", " ", "\"", "d", "i", "f", "f", "i", "c", "u", "l",
      "t", "y", "\"", ":", " ", "\"", "E", "a", "s", "y", "\"", ",", " ", "\"", "q", "u", "e",
      "s", "t", "i", "o", "n", "\"", ":", " ", "\"", "W", "h", "y", " ", "u", "s", "?", "\"",
      "}", "]", "}">>

Body_Empty ==
    <<"{", "}">>

Body_NoList ==
    <<"{", "\"", "q", "u", "e", "s", "t", "i", "o", "n", "s", "\"", ":", " ", "5", ",", " ",
      "\"", "i", "n", "s", "i", "g", "h", "t", "s", "\"", ":", " ", "n", "u", "l", "l", ",",
      " ", "\"", "a", "t", "s", "_", "s", "u", "g", "g", "e", "s", "t", "i", "o", "n", "s",
      "\"", ":", " ", "\"", "n", "o", "n", "e", "\"", "}">>

Bodies == {Body_BatchA, Body_BatchB, Body_QuestionsOnly, Body_Empty, Body_NoList}

FenceOpen ==
    <<"U+0060", "U+0060", "U+0060", "j", "s", "o", "n", "\n">>

FenceClose ==
    <<"\n", "U+0060", "U+0060", "U+0060">>

Preface ==
    <<"H", "e", "r", "e", " ", "i", "s", " ", "t", "h", "e", " ", "J", "S", "O", "N", ":", "\n">>

Padded(body) == <<"\n", " ">> \o body \o <<"\n">>

Fenced(body) == FenceOpen \o body \o FenceClose

Prefaced(body) == Preface \o body

Truncated(body) == SubSeq(body, 1, Len(body) - 1)

InArray(body) == <<"[">> \o body \o <<"]">>

\* the plain-text completion: a category header and two numbered lines
PlainTextCompletion ==
    <<"T", "E", "C", "H", "N", "I", "C", "A", "L", " ", "S", "K", "I", "L", "L", "S", ":",
      "\n", "1", ".", " ", "[", "E", "A", "S", "Y", "]", " ", "W", "h", "a", "t", " ", "i",
      "s", " ", "a", " ", "l", "i", "s", "t", "?", "\n", "2", ".", " ", "[", "H", "A", "R",
      "D", "]", " ", "D", "e", "s", "i", "g", "n", " ", "a", " ", "c", "a", "c", "h", "e">>

WellFormedObjects == Bodies \cup {Padded(body) : body \in Bodies}

InvalidSyntax ==
    {Fenced(body) : body \in Bodies} \cup {Prefaced(body) : body \in Bodies}
        \cup {Truncated(body) : body \in Bodies} \cup {<<>>, PlainTextCompletion}

NotAnObject ==
    {InArray(body) : body \in Bodies}
        \cup {Chars_null, <<"5">>, <<"\"", "o", "k", "\"">>, <<"[", "]">>}

Completions == WellFormedObjects \cup InvalidSyntax \cup NotAnObject

\* the sequences of at most n distinct options, in any order of selection
Selections(options, n) ==
    {f \in UNION {[1..k -> 1..Len(options)] : k \in 0..n} :
        \A i, j \in DOMAIN f : i # j => f[i] # f[j]}

CategoryFilters ==
    {[i \in DOMAIN f |-> CategoryOptions[f[i]]] : f \in Selections(CategoryOptions, MaxFilter)}

(***************************************************************************)
(* The session: one parsed resume, the requests a user or a caller makes   *)
(* and the completions the LLM service returns.                            *)
(***************************************************************************)
ResumeSample == <<"P", "y", "t", "h", "o", "n", " ", "d", "e", "v", "e", "l", "o", "p", "e", "r", " ", "-", " ", "8", " ", "y", "e", "a", "r", "s">>

ResumeTexts == {ResumeSample}

SessionCategoryFilters ==
    {[i \in DOMAIN f |-> <<Cat_TechnicalSkills, Cat_CodingTest>>[f[i]]] :
        f \in Selections(<<Cat_TechnicalSkills, Cat_CodingTest>>, MaxFilter)}

SessionDifficultyFilters ==
    {[i \in DOMAIN f |-> <<"Easy", "Hard">>[f[i]]] : f \in Selections(<<"Easy", "Hard">>, MaxFilter)}

\* the counts requested: a small one, the cap and the ones above it
RequestCounts == {1, 2} \cup (MaxQuestions..MaxCount)

\* a record of the array has no "difficulty"
Body_MissingDifficulty ==
    <<"{", "\"", "q", "u", "e", "s", "t", "i", "o", "n", "s", "\"", ":", " ", "[", "{", "\"",
      "c", "a", "t", "e", "g", "o", "r", "y", "\"", ":", " ", "\"", "T", "e", "c", "h", "n",
      "i", "c", "a", "l", " ", "S", "k", "i", "l", "l", "s", "\"", ",", " ", "\"", "q", "u",
      "e", "s", "t", "i", "o", "n", "\"", ":", " ", "\"", "W", "h", "y", "?", "\"", "}", "]",
      "}">>

\* the model found no question to ask, and filled the other two sections
Body_InsightsOnly ==
    <<"{", "\"", "i", "n", "s", "i", "g", "h", "t", "s", "\"", ":", " ", "{", "\"", "t", "e",
      "c", "h", "n", "o", "l", "o", "g", "i", "e", "s", "\"", ":", " ", "[", "\"", "G", "o",
      "\"", "]", "}", ",", " ", "\"", "q", "u", "e", "s", "t", "i", "o", "n", "s", "\"", ":",
      " ", "[", "]", ",", " ", "\"", "a", "t", "s", "_", "s", "u", "g", "g", "e", "s", "t",
      "i", "o", "n", "s", "\"", ":", " ", "[", "\"", "A", "d", "d", " ", "d", "a", "t", "e",
      "s", "\"", "]", "}">>

SessionCompletions ==
    {Body_BatchA, Body_BatchB, Body_QuestionsOnly, Body_NoList,
     Fenced(Body_BatchA), InArray(Body_BatchB), Body_MissingDifficulty, Body_InsightsOnly}


(***************************************************************************)
(* The upload: validate_file_upload of utils/helpers.py, and               *)
(* ResumeParser.parse_resume with its two extractors.                      *)
(***************************************************************************)
Type_pdf == "application/pdf"

Type_docx == "application/vnd.openxmlformats-officedocument.wordprocessingml.document"

\* helpers.py line 214
allowed_types == {Type_pdf, Type_docx}

\* helpers.py line 220: 10MB in bytes
max_size == 10 * 1024 * 1024

\* st.file_uploader returns None while nothing is uploaded
NoFile == [type |-> "none", size |-> 0]

\* helpers.py lines 200-225
validate_file_upload(file) ==
    IF file = NoFile THEN [ret |-> FALSE, messages |-> <<>>]
    ELSE IF file.type \notin allowed_types
    THEN [ret |-> FALSE, messages |-> <<"error: invalid file type">>]
    ELSE IF file.size > max_size
    THEN [ret |-> FALSE, messages |-> <<"error: file too large">>]
    ELSE [ret |-> TRUE, messages |-> <<>>]

\* what the reader library finds in the file: it raises, or gives the text
\* of each page (PyPDF2) or paragraph (python-docx)
Unreadable == [raises |-> TRUE, parts |-> <<>>]

Readable(parts) == [raises |-> FALSE, parts |-> parts]

RECURSIVE ConcatParts(_, _)
\* resume_parser.py lines 65-70 and 92-96: text += part + " " for each kept part
ConcatParts(parts, i) ==
    IF i > Len(parts) THEN <<>>
    ELSE parts[i] \o <<" ">> \o ConcatParts(parts, i + 1)

\* resume_parser.py line 69: if page_text
KeepPage(page_text) == page_text # <<>>

\* resume_parser.py line 95: if paragraph.text.strip()
KeepParagraph(paragraph_text) == StrStrip(paragraph_text) # <<>>

Extraction(result, reported) == [extracted |-> TRUE, ret |-> result, messages |-> reported]

\* resume_parser.py lines 53-77
extract_text_from_pdf(content) ==
    IF content.raises THEN Extraction(NoneText, <<"error: error reading PDF file">>)
    ELSE Extraction(SomeText(clean_text(ConcatParts(SelectSeq(content.parts, KeepPage), 1))), <<>>)

\* resume_parser.py lines 80-103
extract_text_from_docx(content) ==
    IF content.raises THEN Extraction(NoneText, <<"error: error reading Word document">>)
    ELSE Extraction(SomeText(clean_text(ConcatParts(SelectSeq(content.parts, KeepParagraph), 1))), <<>>)

\* resume_parser.py lines 106-127
parse_resume(file, content) ==
    IF file = NoFile THEN [extracted |-> FALSE, ret |-> NoneText, messages |-> <<>>]
    ELSE IF file.type = Type_pdf THEN extract_text_from_pdf(content)
    ELSE IF file.type = Type_docx THEN extract_text_from_docx(content)
    ELSE [extracted |-> FALSE, ret |-> NoneText,
          messages |-> <<"error: unsupported file format">>]

(***************************************************************************)
(* The uploads and file contents of the model.                             *)
(***************************************************************************)
FileTypes == {Type_pdf, Type_docx, "text/plain"}

FileSizes == {0, 1024, max_size, max_size + 1}

UploadedFiles == [type : FileTypes, size : FileSizes]

PartTexts == {<<>>, <<" ">>, <<"C", "V">>, <<"U+2022", "G", "o">>, <<"S", "Q", "L", "\n">>}

FileContents ==
    {Unreadable} \cup {Readable(parts) : parts \in UNION {[1..n -> PartTexts] : n \in 0..MaxParts}}

NoUpload == [extracted |-> FALSE, resume_text |-> NoneText, messages |-> <<>>, button |-> FALSE]

UploadIdle == uploaded_file = NoFile /\ upload = NoUpload
(***************************************************************************)
(* Resume texts around the character budget of the prompt: the character   *)
(* at index i is the last digit of i, so that a cut at any other place, or *)
(* a shifted one, gives another text.                                      *)
(***************************************************************************)
DigitChars == <<"0", "1", "2", "3", "4", "5", "6", "7", "8", "9">>

ResumeOfLength(n) == [i \in 1..n |-> DigitChars[(i % 10) + 1]]

ResumeLengths ==
    {0, 1, ResumeBudget - 1, ResumeBudget, ResumeBudget + 1, ResumeBudget + 3}

PromptResumes == {ResumeOfLength(n) : n \in ResumeLengths}


(***************************************************************************)
(* utils/helpers.py: extract_skills_from_text, estimate_experience_level   *)
(* and calculate_resume_score.                                             *)
(***************************************************************************)
Letters == {LowerLetters[i] : i \in 1..26} \cup {UpperLetters[i] : i \in 1..26}

\* the characters \w matches, of the ASCII range
WordChars == Letters \cup Digits \cup {"_"}

UpperSet == {UpperLetters[i] : i \in 1..26}

ToLower == [c \in UpperSet |-> LowerLetters[CHOOSE i \in 1..26 : UpperLetters[i] = c]]

LowerChar(c) == IF c \in UpperSet THEN ToLower[c] ELSE c

\* str.lower()
StrLower(s) == [i \in DOMAIN s |-> LowerChar(s[i])]

\* sub in s
Contains(sub, s) ==
    \/ Len(sub) = 0
    \/ \E i \in 1..(Len(s) - Len(sub) + 1) :
          s[i] = sub[1] /\ \A k \in 2..Len(sub) : s[i + k - 1] = sub[k]

\* \b holds before the character at index i (i = Len(s) + 1: at the end)
WordBoundary(s, i) == (At(s, i - 1) \in WordChars) # (At(s, i) \in WordChars)

\* the indices of the text where \b holds
WordEdges(s) == {i \in 1..(Len(s) + 1) : WordBoundary(s, i)}

\* \b(?:alt1|alt2|...)\b at index i of the case-folded text: the length
\* of the first alternative that matches with a word boundary on both
\* sides, 0 when there is none
MatchLength(folded, edges, i, alts) ==
    IF i \notin edges THEN 0
    ELSE LET fits == {a \in DOMAIN alts :
                         /\ At(folded, i) = alts[a][1]
                         /\ StartsAt(folded, alts[a], i)
                         /\ (i + Len(alts[a])) \in edges}
         IN  IF fits = {} THEN 0 ELSE Len(alts[SetMin(fits)])

\* the indices where the pattern matches
MatchStarts(folded, edges, alts) == {j \in edges : MatchLength(folded, edges, j, alts) > 0}

RECURSIVE FindAll(_, _, _, _, _, _)
\* re.findall(pattern, text, re.IGNORECASE) from index i, as the set of the
\* matched substrings: the letter case is ignored (the text and the
\* alternatives are compared case-folded), the scan goes left to right to
\* the next index with a match and goes on behind the match
FindAll(s, folded, edges, starts, i, alts) ==
    LET rest == {j \in starts : j >= i}
    IN  IF rest = {} THEN {}
        ELSE LET j == SetMin(rest)
                 n == MatchLength(folded, edges, j, alts)
             IN  {SubSeq(s, j, j + n - 1)}
                     \cup FindAll(s, folded, edges, starts, j + n, alts)

\* helpers.py line 22
skill_pattern_1 ==
    <<<<"P", "y", "t", "h", "o", "n">>,
      <<"J", "a", "v", "a">>,
      <<"J", "a", "v", "a", "S", "c", "r", "i", "p", "t">>,
      <<"C", "+", "+">>,
      <<"C", "#">>,
      <<"G", "o">>,
      <<"R", "u", "s", "t">>,
      <<"S", "w", "i", "f", "t">>,
      <<"K", "o", "t", "l", "i", "n">>,
      <<"T", "y", "p", "e", "S", "c", "r", "i", "p", "t">>>>

\* helpers.py line 23
skill_pattern_2 ==
    <<<<"R", "e", "a", "c", "t">>,
      <<"A", "n", "g", "u", "l", "a", "r">>,
      <<"V", "u", "e", ".", "j", "s">>,
      <<"N", "o", "d", "e", ".", "j", "s">>,
      <<"E", "x", "p", "r", "e", "s", "s">>,
      <<"D", "j", "a", "n", "g", "o">>,
      <<"F", "l", "a", "s", "k">>,
      <<"S", "p", "r", "i", "n", "g">>,
      <<"L", "a", "r", "a", "v", "e", "l">>>>

\* helpers.py line 24
skill_pattern_3 ==
    <<<<"A", "W", "S">>,
      <<"A", "z", "u", "r", "e">>,
      <<"G", "C", "P">>,
      <<"D", "o", "c", "k", "e", "r">>,
      <<"K", "u", "b", "e", "r", "n", "e", "t", "e", "s">>,
      <<"J", "e", "n", "k", "i", "n", "s">>,
      <<"G", "i", "t">>,
      <<"G", "i", "t", "H", "u", "b">>,
      <<"G", "i", "t", "L", "a", "b">>>>

\* helpers.py line 25
skill_pattern_4 ==
    <<<<"S", "Q", "L">>,
      <<"M", "y", "S", "Q", "L">>,
      <<"P", "o", "s", "t", "g", "r", "e", "S", "Q", "L">>,
      <<"M", "o", "n", "g", "o", "D", "B">>,
      <<"R", "e", "d", "i", "s">>,
      <<"E", "l", "a", "s", "t", "i", "c", "s", "e", "a", "r", "c", "h">>,
      <<"C", "a", "s", "s", "a", "n", "d", "r", "a">>>>

\* helpers.py line 26
skill_pattern_5 ==
    <<<<"M", "a", "c", "h", "i", "n", "e", " ", "L", "e", "a", "r", "n", "i", "n", "g">>,
      <<"A", "I">>,
      <<"D", "e", "e", "p", " ", "L", "e", "a", "r", "n", "i", "n", "g">>,
      <<"T", "e", "n", "s", "o", "r", "F", "l", "o", "w">>,
      <<"P", "y", "T", "o", "r", "c", "h">>,
      <<"S", "c", "i", "k", "i", "t", "-", "l", "e", "a", "r", "n">>>>

\* helpers.py line 27
skill_pattern_6 ==
    <<<<"H", "T", "M", "L">>,
      <<"C", "S", "S">>,
      <<"B", "o", "o", "t", "s", "t", "r", "a", "p">>,
      <<"S", "a", "s", "s">>,
      <<"L", "e", "s", "s">>,
      <<"W", "e", "b", "p", "a", "c", "k">>,
      <<"B", "a", "b", "e", "l">>,
      <<"n", "p", "m">>,
      <<"y", "a", "r", "n">>>>

\* helpers.py line 28
skill_pattern_7 ==
    <<<<"L", "i", "n", "u", "x">>,
      <<"U", "n", "i", "x">>,
      <<"W", "i", "n", "d", "o", "w", "s">>,
      <<"m", "a", "c", "O", "S">>,
      <<"S", "h", "e", "l", "l">>,
      <<"B", "a", "s", "h">>,
      <<"P", "o", "w", "e", "r", "S", "h", "e", "l", "l">>>>

\* helpers.py line 29
skill_pattern_8 ==
    <<<<"A", "g", "i", "l", "e">>,
      <<"S", "c", "r", "u", "m">>,
      <<"K", "a", "n", "b", "a", "n">>,
      <<"J", "I", "R", "A">>,
      <<"C", "o", "n", "f", "l", "u", "e", "n", "c", "e">>,
      <<"S", "l", "a", "c", "k">>,
      <<"T", "e", "a", "m", "s">>>>

\* helpers.py lines 21-30
skill_patterns ==
    <<skill_pattern_1, skill_pattern_2, skill_pattern_3, skill_pattern_4,
      skill_pattern_5, skill_pattern_6, skill_pattern_7, skill_pattern_8>>

\* the alternatives of the patterns, case-folded
folded_patterns ==
    [p \in DOMAIN skill_patterns |->
        [a \in DOMAIN skill_patterns[p] |-> StrLower(skill_patterns[p][a])]]

\* helpers.py lines 10-37: the set of the matched substrings
extract_skills_from_text(resume) ==
    LET folded == StrLower(resume)
        edges == WordEdges(folded)
    IN  UNION {FindAll(resume, folded, edges,
                       MatchStarts(folded, edges, folded_patterns[p]), 1, folded_patterns[p]) :
                  p \in DOMAIN folded_patterns}

\* helpers.py lines 53-57
senior_keywords ==
    <<<<"s", "e", "n", "i", "o", "r">>,
      <<"l", "e", "a", "d">>,
      <<"p", "r", "i", "n", "c", "i", "p", "a", "l">>,
      <<"a", "r", "c", "h", "i", "t", "e", "c", "t">>,
      <<"m", "a", "n", "a", "g", "e", "r">>,
      <<"d", "i", "r", "e", "c", "t", "o", "r">>,
      <<"1", "0", "+", " ", "y", "e", "a", "r", "s">>,
      <<"1", "5", "+", " ", "y", "e", "a", "r", "s">>,
      <<"2", "0", "+", " ", "y", "e", "a", "r", "s">>,
      <<"e", "x", "t", "e", "n", "s", "i", "v", "e", " ", "e", "x", "p", "e", "r", "i", "e", "n", "c", "e">>,
      <<"t", "e", "a", "m", " ", "l", "e", "a", "d">>,
      <<"t", "e", "c", "h", "n", "i", "c", "a", "l", " ", "l", "e", "a", "d">>,
      <<"m", "e", "n", "t", "o", "r">>,
      <<"c", "o", "a", "c", "h">>>>

\* helpers.py lines 59-62
mid_keywords ==
    <<<<"m", "i", "d", "-", "l", "e", "v", "e", "l">>,
      <<"i", "n", "t", "e", "r", "m", "e", "d", "i", "a", "t", "e">>,
      <<"3", "+", " ", "y", "e", "a", "r", "s">>,
      <<"5", "+", " ", "y", "e", "a", "r", "s">>,
      <<"7", "+", " ", "y", "e", "a", "r", "s">>,
      <<"e", "x", "p", "e", "r", "i", "e", "n", "c", "e", "d">>,
      <<"p", "r", "o", "f", "i", "c", "i", "e", "n", "t">>,
      <<"s", "k", "i", "l", "l", "e", "d">>>>

\* helpers.py lines 64-67
junior_keywords ==
    <<<<"j", "u", "n", "i", "o", "r">>,
      <<"e", "n", "t", "r", "y", "-", "l", "e", "v", "e", "l">>,
      <<"g", "r", "a", "d", "u", "a", "t", "e">>,
      <<"i", "n", "t", "e", "r", "n">>,
      <<"0", "-", "2", " ", "y", "e", "a", "r", "s">>,
      <<"r", "e", "c", "e", "n", "t", " ", "g", "r", "a", "d", "u", "a", "t", "e">>,
      <<"n", "e", "w", " ", "g", "r", "a", "d", "u", "a", "t", "e">>,
      <<"s", "t", "u", "d", "e", "n", "t">>>>

\* helpers.py lines 70-72: the keywords found in the lower-cased text
KeywordCount(keywords, text_lower) ==
    Cardinality({k \in DOMAIN keywords : Contains(keywords[k], text_lower)})

\* the comparison of line 77 without the one of line 75
LevelOf_NoSenior(senior_count, mid_count, junior_count) ==
    IF mid_count > junior_count THEN "Mid-level" ELSE "Junior"

\* helpers.py lines 75-80
LevelOf(senior_count, mid_count, junior_count) ==
    IF senior_count > mid_count /\ senior_count > junior_count THEN "Senior"
    ELSE IF mid_count > junior_count THEN "Mid-level"
    ELSE "Junior"

\* helpers.py lines 40-80
estimate_experience_level(resume) ==
    LET text_lower == StrLower(resume)
    IN  LevelOf(KeywordCount(senior_keywords, text_lower),
                KeywordCount(mid_keywords, text_lower),
                KeywordCount(junior_keywords, text_lower))

\* helpers.py lines 143-148: experience_scores.get(experience_level, 50)
ExperienceScore(experience_level) ==
    IF experience_level = "Junior" THEN 30
    ELSE IF experience_level = "Mid-level" THEN 60
    ELSE IF experience_level = "Senior" THEN 90
    ELSE 50

\* helpers.py line 151
sections ==
    <<<<"e", "x", "p", "e", "r", "i", "e", "n", "c", "e">>,
      <<"e", "d", "u", "c", "a", "t", "i", "o", "n">>,
      <<"s", "k", "i", "l", "l", "s">>,
      <<"p", "r", "o", "j", "e", "c", "t", "s">>>>

Min(a, b) == IF a < b THEN a ELSE b

\* the score of line 138 with a remainder in place of the cap
SkillsScore_Wrapped(skills) == (Cardinality(skills) * 5) % 100

\* the score of line 138 without its cap
SkillsScore_Uncapped(skills) == Cardinality(skills) * 5

\* helpers.py line 138: 5 points per skill, max 100
SkillsScore(skills) == Min(Cardinality(skills) * 5, 100)

\* a float that is the quotient of two integers
Quotient(num, den) == [num |-> num, den |-> den]

\* helpers.py lines 124-159.  completeness is (section_count / 4) * 100,
\* which is 25 for each section found; overall is the sum of the three
\* scores divided by 3
calculate_resume_score(resume) ==
    LET skills_diversity == SkillsScore(extract_skills_from_text(resume))
        experience_level == ExperienceScore(estimate_experience_level(resume))
        completeness == (KeywordCount(sections, StrLower(resume)) * 100) \div Len(sections)
    IN  [skills_diversity |-> skills_diversity,
         experience_level |-> experience_level,
         completeness |-> completeness,
         overall |-> Quotient(skills_diversity + experience_level + completeness, 3)]
(***************************************************************************)
(* The methods of QuestionGenerator, and a call of a method by its name as *)
(* test_difficulty.py makes it: generator._estimate_difficulty(question,   *)
(* category).  A name the class does not define raises AttributeError.     *)
(***************************************************************************)
\* question_generator.py lines 11-234: every def of the class
QuestionGeneratorMethods ==
    {"__init__", "generate_questions", "_create_question_prompt", "_get_format_example",
     "_parse_questions", "_parse_insights", "_parse_ats_suggestions",
     "_extract_difficulty_and_clean"}

\* the methods test_difficulty.py calls with a question text (lines 49, 73
\* and 74), and the classifier the class defines
CalledMethods ==
    {"_estimate_difficulty", "_extract_difficulty_from_text", "_clean_question_text",
     "_extract_difficulty_and_clean"}

Returns(value) == [raised |-> "none", ret |-> value]

Raises(exception) ==
    [raised |-> exception, ret |-> [difficulty |-> "None", clean_question |-> NoneText]]

\* the attribute lookup on the instance, and the call of what it finds:
\* _extract_difficulty_and_clean takes the question text and nothing else
CallMethod(name, question, category) ==
    IF name \notin QuestionGeneratorMethods THEN Raises("AttributeError")
    ELSE IF category # <<>> THEN Raises("TypeError")
    ELSE Returns(_extract_difficulty_and_clean(question))

Phrase_what_is ==
    <<"w", "h", "a", "t", " ", "i", "s">>

Phrase_define ==
    <<"d", "e", "f", "i", "n", "e">>

Phrase_explain ==
    <<"e", "x", "p", "l", "a", "i", "n">>

Phrase_describe ==
    <<"d", "e", "s", "c", "r", "i", "b", "e">>

Phrase_basic ==
    <<"b", "a", "s", "i", "c">>

Phrase_fundamental ==
    <<"f", "u", "n", "d", "a", "m", "e", "n", "t", "a", "l">>

Phrase_design ==
    <<"d", "e", "s", "i", "g", "n">>

Phrase_architecture ==
    <<"a", "r", "c", "h", "i", "t", "e", "c", "t", "u", "r", "e">>

Phrase_optimize ==
    <<"o", "p", "t", "i", "m", "i", "z", "e">>

Phrase_scale ==
    <<"s", "c", "a", "l", "e">>

Phrase_complex ==
    <<"c", "o", "m", "p", "l", "e", "x">>

Phrase_advanced ==
    <<"a", "d", "v", "a", "n", "c", "e", "d">>

Phrase_implement ==
    <<"i", "m", "p", "l", "e", "m", "e", "n", "t">>

Phrase_What ==
    <<"W", "h", "a", "t">>

Phrase_is ==
    <<"i", "s">>

Phrase_Python ==
    <<"P", "y", "t", "h", "o", "n", "?">>

Phrase_Marker ==
    <<"[", "H", "A", "R", "D", "]">>

\* the words of the questions
QuestionPhrases ==
    {Phrase_what_is,
     Phrase_define,
     Phrase_explain,
     Phrase_describe,
     Phrase_basic,
     Phrase_fundamental,
     Phrase_design,
     Phrase_architecture,
     Phrase_optimize,
     Phrase_scale,
     Phrase_complex,
     Phrase_advanced,
     Phrase_implement,
     Phrase_What,
     Phrase_is,
     Phrase_Python,
     Phrase_Marker}

QuestionPhraseSeqs == UNION {[1..n -> QuestionPhrases] : n \in 1..2}

\* no category argument, or one of the categories
CategoryArguments == {<<>>} \cup {CategoryOptions[i] : i \in DOMAIN CategoryOptions}

NoCall == [name |-> "none", phrases |-> <<>>, category |-> <<>>]

CallIdle == method_call = NoCall /\ method_result = Raises("none")


(***************************************************************************)
(* The resume texts of the scores: words joined by single spaces.          *)
(***************************************************************************)
Word_python ==
    <<"p", "y", "t", "h", "o", "n">>

Word_senior ==
    <<"s", "e", "n", "i", "o", "r">>

Word_skilled ==
    <<"s", "k", "i", "l", "l", "e", "d">>

Word_junior ==
    <<"j", "u", "n", "i", "o", "r">>

Word_Sections ==
    <<"s", "k", "i", "l", "l", "s", " ", "p", "r", "o", "j", "e", "c", "t", "s">>

Word_NineteenSkills ==
    <<"G", "o", " ", "A", "I", " ", "G", "i", "t", " ", "A", "W", "S", " ", "G", "C", "P", " ",
      "S", "Q", "L", " ", "C", "S", "S", " ", "n", "p", "m", " ", "J", "a", "v", "a", " ", "R",
      "u", "s", "t", " ", "H", "T", "M", "L", " ", "S", "a", "s", "s", " ", "L", "e", "s", "s",
      " ", "y", "a", "r", "n", " ", "U", "n", "i", "x", " ", "B", "a", "s", "h", " ", "J", "I",
      "R", "A", " ", "F", "l", "a", "s", "k", " ", "S", "w", "i", "f", "t">>

ScoreWords ==
    {Word_python,
     Word_senior,
     Word_skilled,
     Word_junior,
     Word_Sections,
     Word_NineteenSkills}

ScoreWordSeqs == UNION {[1..n -> ScoreWords] : n \in 0..MaxWords}

RECURSIVE JoinWords(_)
JoinWords(words) ==
    IF Len(words) = 0 THEN <<>>
    ELSE IF Len(words) = 1 THEN words[1]
    ELSE words[1] \o <<" ">> \o JoinWords(Tail(words))

\* every keyword of the skill patterns
SkillKeywords ==
    UNION {{skill_patterns[p][a] : a \in DOMAIN skill_patterns[p]} : p \in DOMAIN skill_patterns}

\* the text with the keyword added as a word of its own, before or after
WithKeyword(resume, keyword, side) ==
    IF side = "before" THEN keyword \o <<" ">> \o resume ELSE resume \o <<" ">> \o keyword

NoScores ==
    [skills_diversity |-> 0, experience_level |-> 0, completeness |-> 0,
     overall |-> Quotient(0, 3)]

NoKeyword == [keyword |-> <<>>, side |-> "none"]

ScoreIdle ==
    /\ score_words = <<>>
    /\ scores = NoScores
    /\ level = "pending"
    /\ added = NoKeyword
    /\ scores_added = NoScores

HelperIdle == UploadIdle /\ ScoreIdle /\ CallIdle
Unclassified == [difficulty |-> "pending", clean_question |-> NoneText]

\* a parser that has not run yet
NotParsed == [ret |-> JVal("null", <<>>), error |-> FALSE, raised |-> FALSE]

ClassifyIdle == question_items = <<>> /\ classified = Unclassified

CleanIdle == text = <<>> /\ cleaned = <<>> /\ recleaned = <<>>

NoRequest ==
    [via |-> "none", question_count |-> 0, difficulty_filter |-> <<>>, category_filter |-> <<>>]

\* a key of st.session_state that has not been assigned
Unset == [set |-> FALSE, val |-> JVal("null", <<>>)]

Assigned(value) == [set |-> TRUE, val |-> value]

EmptySession == [questions |-> Unset, resume_insights |-> Unset, ats_suggestions |-> Unset]

SessionIdle ==
    /\ api_key = FALSE
    /\ client = FALSE
    /\ resume_text = <<>>
    /\ request = NoRequest
    /\ prompt = NoPrompt
    /\ llm_calls = 0
    /\ llm_outcome = "none"
    /\ messages = <<>>
    /\ session_state = EmptySession
    /\ stored_from = Unset
    /\ returned = Unset
    /\ response_content = Unset

ParseIdle ==
    /\ completion = <<>>
    /\ example_filter = <<>>
    /\ parsed_questions = NotParsed
    /\ parsed_insights = NotParsed
    /\ parsed_ats = NotParsed

(***************************************************************************)
(* SpecClassify: the classifier applied to a payload.                      *)
(***************************************************************************)
InitClassify ==
    /\ pc = "classify"
    /\ question_items \in ItemSeqs
    /\ classified = Unclassified
    /\ CleanIdle
    /\ ParseIdle
    /\ SessionIdle
    /\ HelperIdle

Classify ==
    /\ pc = "classify"
    /\ classified' = _extract_difficulty_and_clean(JoinItems(question_items))
    /\ pc' = "classified"
    /\ UNCHANGED <<question_items, cleanVars, parseVars, sessionVars>>
    /\ UNCHANGED helperVars

NextClassify == Classify

SpecClassify == InitClassify /\ [][NextClassify]_vars

(***************************************************************************)
(* SpecClean: clean_text applied to a raw text, then to its own result.    *)
(***************************************************************************)
InitClean ==
    /\ pc = "clean"
    /\ text \in Texts
    /\ cleaned = <<>>
    /\ recleaned = <<>>
    /\ ClassifyIdle
    /\ ParseIdle
    /\ SessionIdle
    /\ HelperIdle

CleanOnce ==
    /\ pc = "clean"
    /\ cleaned' = clean_text(text)
    /\ pc' = "cleaned"
    /\ UNCHANGED <<text, recleaned, classifyVars, parseVars, sessionVars>>
    /\ UNCHANGED helperVars

CleanAgain ==
    /\ pc = "cleaned"
    /\ recleaned' = clean_text(cleaned)
    /\ pc' = "recleaned"
    /\ UNCHANGED <<text, cleaned, classifyVars, parseVars, sessionVars>>
    /\ UNCHANGED helperVars

NextClean == CleanOnce \/ CleanAgain

SpecClean == InitClean /\ [][NextClean]_vars

(***************************************************************************)
(* SpecParse: the three parsers applied, in the order of main.py lines     *)
(* 268-270, to one completion: one of Completions, or the prompt's own     *)
(* format example for a category filter.                                   *)
(***************************************************************************)
InitParse ==
    /\ pc = "parse_questions"
    /\ example_filter \in CategoryFilters \ {<<>>}
    /\ completion \in Completions \cup {_get_format_example(example_filter)}
    /\ parsed_questions = NotParsed
    /\ parsed_insights = NotParsed
    /\ parsed_ats = NotParsed
    /\ ClassifyIdle
    /\ CleanIdle
    /\ SessionIdle
    /\ HelperIdle

ParseQuestions ==
    /\ pc = "parse_questions"
    /\ parsed_questions' = _parse_questions(completion)
    /\ pc' = "parse_insights"
    /\ UNCHANGED <<completion, example_filter, parsed_insights, parsed_ats>>
    /\ UNCHANGED <<classifyVars, cleanVars, sessionVars>>
    /\ UNCHANGED helperVars

ParseInsights ==
    /\ pc = "parse_insights"
    /\ parsed_insights' = _parse_insights(completion)
    /\ pc' = "parse_ats"
    /\ UNCHANGED <<completion, example_filter, parsed_questions, parsed_ats>>
    /\ UNCHANGED <<classifyVars, cleanVars, sessionVars>>
    /\ UNCHANGED helperVars

ParseAtsSuggestions ==
    /\ pc = "parse_ats"
    /\ parsed_ats' = _parse_ats_suggestions(completion)
    /\ pc' = "parsed"
    /\ UNCHANGED <<completion, example_filter, parsed_questions, parsed_insights>>
    /\ UNCHANGED <<classifyVars, cleanVars, sessionVars>>
    /\ UNCHANGED helperVars

NextParse == ParseQuestions \/ ParseInsights \/ ParseAtsSuggestions

SpecParse == InitParse /\ [][NextParse]_vars

(***************************************************************************)
(* Spec: one Streamlit session with a parsed resume.  A click on the       *)
(* Generate button runs main's branch of lines 196-204 and                 *)
(* generate_questions of main.py up to the LLM call; a caller of           *)
(* QuestionGenerator.generate_questions (as test_simplified_generator.py)  *)
(* runs it up to the LLM call.  The call is the only point where a handler *)
(* waits: it returns a completion or raises, and the handler runs to its   *)
(* end.  messages are the st.error, st.warning and st.success calls of the *)
(* handler that ran last.                                                  *)
(***************************************************************************)
Init ==
    /\ pc = "idle"
    /\ api_key \in BOOLEAN
    /\ client = FALSE
    /\ resume_text \in ResumeTexts
    /\ request = NoRequest
    /\ prompt = NoPrompt
    /\ llm_calls = 0
    /\ llm_outcome = "none"
    /\ messages = <<>>
    /\ session_state = EmptySession
    /\ stored_from = Unset
    /\ returned = Unset
    /\ response_content = Unset
    /\ ClassifyIdle
    /\ CleanIdle
    /\ ParseIdle
    /\ HelperIdle

\* main.py lines 249-257: the builder's prompt plus the coding-test instruction
UiPrompt(question_count, difficulty_filter, category_filter) ==
    [_create_question_prompt(resume_text, question_count, difficulty_filter, category_filter)
        EXCEPT !.coding_test_instruction =
                   \E i \in DOMAIN category_filter : category_filter[i] = Cat_CodingTest]

\* the environment held no API key, where the constructor went on regardless
KeyMissing_Never(key) == FALSE

\* question_generator.py lines 16-17: os.getenv gave nothing
KeyMissing(key) == ~key

\* the button's branch stops before any call: a validation error of lines
\* 197-202, or QuestionGenerator() without an API key (st.error, st.stop)
Rejected(message) ==
    /\ messages' = <<message>>
    /\ client' = FALSE
    /\ prompt' = NoPrompt
    /\ llm_calls' = 0
    /\ pc' = "idle"

ClickGenerate ==
    /\ pc = "idle"
    /\ \E question_count \in RequestCounts \cap (1..SliderMax),
          difficulty_filter \in SessionDifficultyFilters,
          category_filter \in SessionCategoryFilters :
          /\ request' = [via |-> "ui", question_count |-> question_count,
                         difficulty_filter |-> difficulty_filter,
                         category_filter |-> category_filter]
          /\ IF difficulty_filter = <<>> THEN Rejected("error: select a difficulty level")
             ELSE IF category_filter = <<>> THEN Rejected("error: select a category")
             ELSE IF question_count > 10 THEN Rejected("error: question count cannot exceed 10")
             ELSE IF KeyMissing(api_key) THEN Rejected("error: OpenAI API key not found")
             ELSE /\ client' = TRUE
                  /\ prompt' = UiPrompt(question_count, difficulty_filter, category_filter)
                  /\ messages' = <<>>
                  /\ llm_calls' = 1
                  /\ pc' = "ui_llm"
    /\ llm_outcome' = "none"
    /\ returned' = Unset
    /\ response_content' = Unset
    /\ UNCHANGED <<api_key, resume_text, session_state, stored_from>>
    /\ UNCHANGED <<classifyVars, cleanVars, parseVars>>
    /\ UNCHANGED helperVars

ErrorIf(result, message) == IF result.error THEN <<message>> ELSE <<>>

\* the merge of a careless store: an empty section keeps the earlier value
StoreBatch_KeepOnEmpty(store, questions, insights, ats_suggestions) ==
    [questions |-> Assigned(questions),
     resume_insights |-> IF insights = EmptyDict /\ store.resume_insights.set
                         THEN store.resume_insights ELSE Assigned(insights),
     ats_suggestions |-> Assigned(ats_suggestions)]

\* main.py lines 271-273
StoreBatch(store, questions, insights, ats_suggestions) ==
    [questions |-> Assigned(questions),
     resume_insights |-> Assigned(insights),
     ats_suggestions |-> Assigned(ats_suggestions)]

\* main.py lines 267-275: the three parsers, the three assignments, the
\* success message (its len(questions) raises for a value without a length
\* and the except clause of line 276 reports it)
UiLlmReturns ==
    /\ pc = "ui_llm"
    /\ \E content \in SessionCompletions :
          \E questions \in {_parse_questions(content)},
             insights \in {_parse_insights(content)},
             ats_suggestions \in {_parse_ats_suggestions(content)} :
              /\ response_content' = Assigned(content)
              /\ session_state' = StoreBatch(session_state, questions.ret, insights.ret,
                                             ats_suggestions.ret)
              /\ stored_from' = Assigned(content)
              /\ messages' = messages
                    \o ErrorIf(questions, "error: failed to parse questions")
                    \o ErrorIf(insights, "error: failed to parse insights")
                    \o ErrorIf(ats_suggestions, "error: failed to parse ATS suggestions")
                    \o (IF HasLen(questions.ret) THEN <<"success: generated">>
                        ELSE <<"error: failed to generate questions and insights">>)
    /\ llm_outcome' = "returned"
    /\ pc' = "idle"
    /\ UNCHANGED <<api_key, client, resume_text, request, prompt, llm_calls, returned>>
    /\ UNCHANGED <<classifyVars, cleanVars, parseVars>>
    /\ UNCHANGED helperVars

\* the except clause of main.py line 276 clears the store
UiLlmRaises_ClearsStore ==
    /\ pc = "ui_llm"
    /\ messages' = Append(messages, "error: failed to generate questions and insights")
    /\ session_state' = StoreBatch(session_state, EmptyList, EmptyDict, EmptyList)
    /\ llm_outcome' = "raised"
    /\ pc' = "idle"
    /\ UNCHANGED <<api_key, client, response_content, resume_text,
                   request, prompt, llm_calls, stored_from, returned>>
    /\ UNCHANGED <<classifyVars, cleanVars, parseVars>>
    /\ UNCHANGED helperVars

\* main.py lines 258, 276-277: the call raises
UiLlmRaises ==
    /\ pc = "ui_llm"
    /\ messages' = Append(messages, "error: failed to generate questions and insights")
    /\ llm_outcome' = "raised"
    /\ pc' = "idle"
    /\ UNCHANGED <<api_key, client, response_content, resume_text, request, prompt, llm_calls, session_state,
                   stored_from, returned>>
    /\ UNCHANGED <<classifyVars, cleanVars, parseVars>>
    /\ UNCHANGED helperVars

\* QuestionGenerator() and generate_questions lines 40-51
ApiGenerate ==
    /\ pc = "idle"
    /\ \E question_count \in RequestCounts,
          difficulty_filter \in SessionDifficultyFilters,
          category_filter \in SessionCategoryFilters :
          /\ request' = [via |-> "api", question_count |-> question_count,
                         difficulty_filter |-> difficulty_filter,
                         category_filter |-> category_filter]
          /\ IF KeyMissing(api_key) THEN Rejected("error: OpenAI API key not found")
             ELSE /\ client' = TRUE
                  /\ messages' = IF question_count > MaxQuestions
                                 THEN <<"warning: question count limited to maximum of 10">>
                                 ELSE <<>>
                  /\ prompt' = _create_question_prompt(resume_text, ClampCount(question_count),
                                                       difficulty_filter, category_filter)
                  /\ llm_calls' = 1
                  /\ pc' = "api_llm"
    /\ llm_outcome' = "none"
    /\ returned' = Unset
    /\ response_content' = Unset
    /\ UNCHANGED <<api_key, resume_text, session_state, stored_from>>
    /\ UNCHANGED <<classifyVars, cleanVars, parseVars>>
    /\ UNCHANGED helperVars

ApiFailure ==
    <<"error: error generating questions", "error: check your OpenAI API key">>

\* generate_questions lines 61-71, and 73-76 when len(questions) raises
ApiLlmReturns ==
    /\ pc = "api_llm"
    /\ \E content \in SessionCompletions :
          \E questions \in {_parse_questions(content)} :
              /\ response_content' = Assigned(content)
              /\ IF HasLen(questions.ret)
                 THEN /\ messages' = messages
                            \o ErrorIf(questions, "error: failed to parse questions")
                            \o (IF PyLen(questions.ret) # prompt.question_count
                                THEN <<"warning: generated a different number of questions">>
                                ELSE <<>>)
                      /\ returned' = Assigned(questions.ret)
                 ELSE /\ messages' = messages \o ApiFailure
                      /\ returned' = Assigned(EmptyList)
    /\ llm_outcome' = "returned"
    /\ pc' = "idle"
    /\ UNCHANGED <<api_key, client, resume_text, request,
                   prompt, llm_calls, session_state, stored_from>>
    /\ UNCHANGED <<classifyVars, cleanVars, parseVars>>
    /\ UNCHANGED helperVars

\* a handler that calls again when the call raised, up to three calls
ApiLlmRaises_Retries ==
    /\ pc = "api_llm"
    /\ llm_calls < 3
    /\ llm_calls' = llm_calls + 1
    /\ UNCHANGED <<pc, api_key, client, response_content, resume_text, request, prompt,
                   llm_outcome, messages, session_state, stored_from, returned>>
    /\ UNCHANGED <<classifyVars, cleanVars, parseVars>>
    /\ UNCHANGED helperVars

\* generate_questions lines 51, 73-76: the call raises
ApiLlmRaises ==
    /\ pc = "api_llm"
    /\ messages' = messages \o ApiFailure
    /\ returned' = Assigned(EmptyList)
    /\ llm_outcome' = "raised"
    /\ pc' = "idle"
    /\ UNCHANGED <<api_key, client, response_content, resume_text,
                   request, prompt, llm_calls, session_state, stored_from>>
    /\ UNCHANGED <<classifyVars, cleanVars, parseVars>>
    /\ UNCHANGED helperVars

Next ==
    \/ ClickGenerate
    \/ UiLlmReturns
    \/ UiLlmRaises
    \/ ApiGenerate
    \/ ApiLlmReturns
    \/ ApiLlmRaises

Spec == Init /\ [][Next]_vars


(***************************************************************************)
(* SpecUpload: the script run of main.py lines 155-204 on the file of the  *)
(* uploader widget.                                                        *)
(***************************************************************************)
InitUpload ==
    /\ pc = "upload"
    /\ UploadIdle
    /\ ScoreIdle
    /\ ClassifyIdle
    /\ CleanIdle
    /\ ParseIdle
    /\ SessionIdle
    /\ CallIdle

\* main.py lines 162-196: the file is shown and parsed; the button is
\* offered when the parsed text is truthy
UploadFile ==
    /\ pc = "upload"
    /\ \E file \in UploadedFiles, content \in FileContents :
          \E parsed \in {parse_resume(file, content)} :
              /\ uploaded_file' = file
              /\ upload' = [extracted |-> parsed.extracted,
                            resume_text |-> parsed.ret,
                            messages |-> <<"success: file uploaded">> \o parsed.messages
                                \o (IF ~parsed.ret.isNone /\ parsed.ret.text # <<>>
                                    THEN <<"success: resume parsed">> ELSE <<>>),
                            button |-> ~parsed.ret.isNone /\ parsed.ret.text # <<>>]
    /\ UNCHANGED <<pc, classifyVars, cleanVars, parseVars, sessionVars, scoreVars, callVars>>

\* main.py line 162: the uploader holds no file
RemoveFile ==
    /\ pc = "upload"
    /\ uploaded_file # NoFile
    /\ uploaded_file' = NoFile
    /\ upload' = NoUpload
    /\ UNCHANGED <<pc, classifyVars, cleanVars, parseVars, sessionVars, scoreVars, callVars>>

NextUpload ==
    \/ UploadFile
    \/ RemoveFile

SpecUpload == InitUpload /\ [][NextUpload]_vars

(***************************************************************************)
(* SpecScore: calculate_resume_score and estimate_experience_level on a    *)
(* resume text, and the score again after a skill keyword was added.       *)
(***************************************************************************)
InitScore ==
    /\ pc = "score"
    /\ score_words \in ScoreWordSeqs
    /\ scores = NoScores
    /\ level = "pending"
    /\ added = NoKeyword
    /\ scores_added = NoScores
    /\ UploadIdle
    /\ ClassifyIdle
    /\ CleanIdle
    /\ ParseIdle
    /\ SessionIdle
    /\ CallIdle

Score ==
    /\ pc = "score"
    /\ scores' = calculate_resume_score(JoinWords(score_words))
    /\ level' = estimate_experience_level(JoinWords(score_words))
    /\ pc' = "scored"
    /\ UNCHANGED <<score_words, added, scores_added>>
    /\ UNCHANGED <<classifyVars, cleanVars, parseVars, sessionVars, uploadVars, callVars>>

ScoreWithKeyword ==
    /\ pc = "scored"
    /\ \E keyword \in SkillKeywords, side \in {"before", "after"} :
          /\ added' = [keyword |-> keyword, side |-> side]
          /\ scores_added' =
                 calculate_resume_score(WithKeyword(JoinWords(score_words), keyword, side))
    /\ pc' = "rescored"
    /\ UNCHANGED <<score_words, scores, level>>
    /\ UNCHANGED <<classifyVars, cleanVars, parseVars, sessionVars, uploadVars, callVars>>

NextScore ==
    \/ Score
    \/ ScoreWithKeyword

SpecScore == InitScore /\ [][NextScore]_vars

(***************************************************************************)
(* SpecCall: a method of the generator called by its name on a question.   *)
(***************************************************************************)
InitCall ==
    /\ pc = "call"
    /\ CallIdle
    /\ UploadIdle
    /\ ScoreIdle
    /\ ClassifyIdle
    /\ CleanIdle
    /\ ParseIdle
    /\ SessionIdle

Call ==
    /\ pc = "call"
    /\ \E name \in CalledMethods, phrases \in QuestionPhraseSeqs, category \in CategoryArguments :
          /\ method_call' = [name |-> name, phrases |-> phrases, category |-> category]
          /\ method_result' = CallMethod(name, JoinWords(phrases), category)
    /\ pc' = "called"
    /\ UNCHANGED <<classifyVars, cleanVars, parseVars, sessionVars, uploadVars, scoreVars>>

NextCall == Call

SpecCall == InitCall /\ [][NextCall]_vars

(***************************************************************************)
(* SpecPrompt: _create_question_prompt on a resume of any length.          *)
(***************************************************************************)
InitPrompt ==
    /\ pc = "prompt"
    /\ resume_text \in PromptResumes
    /\ api_key = FALSE
    /\ client = FALSE
    /\ request = NoRequest
    /\ prompt = NoPrompt
    /\ llm_calls = 0
    /\ llm_outcome = "none"
    /\ messages = <<>>
    /\ session_state = EmptySession
    /\ stored_from = Unset
    /\ returned = Unset
    /\ response_content = Unset
    /\ ClassifyIdle
    /\ CleanIdle
    /\ ParseIdle
    /\ HelperIdle

BuildPrompt ==
    /\ pc = "prompt"
    /\ \E question_count \in {1, MaxQuestions},
          difficulty_filter \in SessionDifficultyFilters,
          category_filter \in SessionCategoryFilters :
          prompt' = _create_question_prompt(resume_text, question_count, difficulty_filter,
                                            category_filter)
    /\ pc' = "prompted"
    /\ UNCHANGED <<api_key, client, resume_text, request, llm_calls, llm_outcome, messages,
                   response_content, session_state, stored_from, returned>>
    /\ UNCHANGED <<classifyVars, cleanVars, parseVars>>
    /\ UNCHANGED helperVars

NextPrompt == BuildPrompt

SpecPrompt == InitPrompt /\ [][NextPrompt]_vars
(***************************************************************************)
(* Properties of the difficulty classifier (SpecClassify).                 *)
(***************************************************************************)
MarkerPositions(items) == {i \in DOMAIN items : items[i] \in Markers}

MarkerLabel(marker) ==
    IF marker \in EasyMarkers THEN "Easy"
    ELSE IF marker \in HardMarkers THEN "Hard"
    ELSE "Medium"

WithoutItem(items, i) == SubSeq(items, 1, i - 1) \o SubSeq(items, i + 1, Len(items))

\* 0-based index in the joined payload at which item i starts
RECURSIVE ItemStart(_, _)
ItemStart(items, i) ==
    IF i = 1 THEN 0 ELSE ItemStart(items, i - 1) + Len(items[i - 1]) + 1

\* the items that carry a bare keyword (every keyword word starts with it)
KeywordPositions(items) == {i \in DOMAIN items : items[i] \in KeywordWords}

PriorityLabel(items) ==
    IF \E i \in DOMAIN items : items[i] \in EasyMarkers THEN "Easy"
    ELSE IF \E i \in DOMAIN items : items[i] \in HardMarkers THEN "Hard"
    ELSE "Medium"

\* C1: a payload with exactly one bracketed marker, written in any letter
\* case, gets the label of that marker, and its cleaned text is the payload
\* without the marker: the other items, all of them, and nothing else.
C1_SingleMarkerStripped ==
    (pc = "classified" /\ Cardinality(MarkerPositions(question_items)) = 1) =>
        LET i == CHOOSE k \in MarkerPositions(question_items) : TRUE
        IN  /\ classified.difficulty = MarkerLabel(question_items[i])
            /\ ~classified.clean_question.isNone
            /\ classified.clean_question.text = JoinItems(WithoutItem(question_items, i))

\* C2: a payload with more than one bracketed marker is labelled by the
\* priority Easy, then Hard, then Medium, whatever the order of the markers.
C2_PriorityOrder ==
    (pc = "classified" /\ Cardinality(MarkerPositions(question_items)) > 1) =>
        classified.difficulty = PriorityLabel(question_items)

\* a [MEDIUM] marker written before a [HARD] marker, no [EASY]: labelled Hard
C2_Witness ==
    /\ pc = "classified"
    /\ \E i, j \in DOMAIN question_items :
          /\ i < j
          /\ question_items[i] \in MediumMarkers
          /\ question_items[j] \in HardMarkers
    /\ \A i \in DOMAIN question_items : question_items[i] \notin EasyMarkers
    /\ classified.difficulty = "Hard"

\* C3: a payload without a bracketed marker and without a bare keyword
\* starting in its first 20 characters is classified (None, None); and the
\* difficulty is None exactly when the cleaned text is None.
C3_NoneWithoutMarker ==
    pc = "classified" =>
        /\ ( /\ MarkerPositions(question_items) = {}
              /\ \A i \in KeywordPositions(question_items) : ItemStart(question_items, i) >= 20 )
            => (classified.difficulty = "None" /\ classified.clean_question.isNone)
        /\ (classified.difficulty = "None") <=> classified.clean_question.isNone

\* a bare keyword is there, but it starts at index 20: (None, None)
C3_Witness ==
    /\ pc = "classified"
    /\ MarkerPositions(question_items) = {}
    /\ \E i \in KeywordPositions(question_items) : ItemStart(question_items, i) = 20
    /\ \A i \in KeywordPositions(question_items) : ItemStart(question_items, i) >= 20
    /\ classified.difficulty = "None"
    /\ classified.clean_question.isNone

(***************************************************************************)
(* Properties of the text normaliser (SpecClean).                          *)
(***************************************************************************)
\* C4: clean_text is idempotent: cleaning the cleaned text changes nothing.
C4_Idempotent == pc = "recleaned" => recleaned = cleaned

\* a raw text with a black circle, a hyphen and a newline or tab, which the
\* first cleaning changed, has been cleaned twice
C4_Witness ==
    /\ pc = "recleaned"
    /\ \E i \in DOMAIN text : text[i] = BlackCircle
    /\ \E i \in DOMAIN text : text[i] = "-"
    /\ \E i \in DOMAIN text : text[i] \in {"\n", "\t"}
    /\ cleaned # text
    /\ recleaned = cleaned


(***************************************************************************)
(* Properties of the response parsers (SpecParse).                         *)
(***************************************************************************)
Str(chars) == JVal("str", chars)

Key_category == <<"c", "a", "t", "e", "g", "o", "r", "y">>

Key_difficulty == <<"d", "i", "f", "f", "i", "c", "u", "l", "t", "y">>

Key_question == <<"q", "u", "e", "s", "t", "i", "o", "n">>

\* the decoded record {"category": ..., "difficulty": ..., "question": ...}
QuestionRecord(category, difficulty, question) ==
    JVal("obj", <<[k |-> Key_category, v |-> Str(category)],
                  [k |-> Key_difficulty, v |-> Str(difficulty)],
                  [k |-> Key_question, v |-> Str(question)]>>)

Chars_Easy == <<"E", "a", "s", "y">>

Chars_Medium == <<"M", "e", "d", "i", "u", "m">>

Chars_Hard == <<"H", "a", "r", "d">>

WhatIsAList == <<"W", "h", "a", "t", " ", "i", "s", " ", "a", " ", "l", "i", "s", "t", "?">>

DesignACache == <<"D", "e", "s", "i", "g", "n", " ", "a", " ", "c", "a", "c", "h", "e">>

TwoQuestions ==
    JVal("arr", <<QuestionRecord(Cat_TechnicalSkills, Chars_Easy, WhatIsAList),
                  QuestionRecord(Cat_TechnicalSkills, Chars_Hard, DesignACache)>>)

\* C5: a completion that is not a well-formed JSON object (invalid syntax,
\* or a JSON value that is not an object) makes the three parsers return
\* [], {} and [], each with a reported error and none with an exception;
\* and for no completion do the three disagree on whether it decoded.
C5_MalformedDegrades ==
    pc = "parsed" =>
        /\ completion \in InvalidSyntax \cup NotAnObject =>
              /\ parsed_questions = [ret |-> EmptyList, error |-> TRUE, raised |-> FALSE]
              /\ parsed_insights = [ret |-> EmptyDict, error |-> TRUE, raised |-> FALSE]
              /\ parsed_ats = [ret |-> EmptyList, error |-> TRUE, raised |-> FALSE]
        /\ parsed_questions.error = parsed_insights.error
        /\ parsed_insights.error = parsed_ats.error
        /\ ~parsed_questions.raised /\ ~parsed_insights.raised /\ ~parsed_ats.raised

\* a JSON array around a well-formed object went through the three parsers
C5_Witness ==
    /\ pc = "parsed"
    /\ \E body \in Bodies : body # Body_Empty /\ completion = InArray(body)
    /\ parsed_questions.error /\ parsed_insights.error /\ parsed_ats.error

QuestionsWith(list, category, difficulty) ==
    {i \in DOMAIN list.v :
        /\ list.v[i].t = "obj"
        /\ DictGet(list.v[i], Key_category, Str(<<>>)) = Str(category)
        /\ DictGet(list.v[i], Key_difficulty, Str(<<>>)) = Str(difficulty)}

Reports(log, message) == \E i \in DOMAIN log : log[i] = message

ErrorMessages ==
    {"error: select a difficulty level", "error: select a category",
     "error: question count cannot exceed 10", "error: OpenAI API key not found",
     "error: failed to parse questions", "error: failed to parse insights",
     "error: failed to parse ATS suggestions",
     "error: failed to generate questions and insights",
     "error: error generating questions", "error: check your OpenAI API key"}

\* C6: a generation requested with a question_count above 10 builds its
\* prompt for exactly 10 questions and records a warning; and no prompt
\* that was built, on either path, asks for more than 10 questions.
C6_CountClamped ==
    /\ prompt.built => prompt.question_count <= 10
    /\ (request.via # "none" /\ request.question_count > 10 /\ api_key) =>
          /\ prompt.built
          /\ prompt.question_count = 10
          /\ Reports(messages, "warning: question count limited to maximum of 10")

\* 11 questions were requested and the prompt for 10 is with the LLM
C6_Witness ==
    /\ pc = "api_llm"
    /\ request.question_count = 11
    /\ prompt.built
    /\ prompt.question_count = 10
    /\ Reports(messages, "warning: question count limited to maximum of 10")

\* C9: the three slots of the store are the parse of one completion, the
\* one of the latest generation that stored a result, whole and unmerged;
\* before the first such generation the store holds nothing.
C9_OneBatch ==
    IF stored_from.set
    THEN /\ session_state.questions = Assigned(_parse_questions(stored_from.val).ret)
         /\ session_state.resume_insights = Assigned(_parse_insights(stored_from.val).ret)
         /\ session_state.ats_suggestions = Assigned(_parse_ats_suggestions(stored_from.val).ret)
    ELSE session_state = EmptySession

\* the latest batch had questions only: the store holds them, with empty
\* insights and no suggestions
C9_Witness ==
    /\ pc = "idle"
    /\ llm_outcome = "returned"
    /\ stored_from = Assigned(Body_QuestionsOnly)
    /\ session_state.questions.set
    /\ PyLen(session_state.questions.val) = 1
    /\ session_state.resume_insights = Assigned(EmptyDict)
    /\ session_state.ats_suggestions = Assigned(EmptyList)

\* C10: when the LLM call raises, the handler reports an error and leaves
\* the three slots of the store as they were; and
\* QuestionGenerator.generate_questions returns [] instead of raising.
C10_FailureLeavesStore ==
    [][(pc \in {"ui_llm", "api_llm"} /\ llm_outcome' = "raised") =>
          /\ session_state' = session_state
          /\ \E i \in (Len(messages) + 1)..Len(messages') : messages'[i] \in ErrorMessages
          /\ pc = "api_llm" => returned' = Assigned(EmptyList)]_vars

\* the call of a click raised while the store held an earlier batch, and
\* the batch is still there
C10_Witness ==
    /\ pc = "idle"
    /\ request.via = "ui"
    /\ llm_outcome = "raised"
    /\ stored_from.set
    /\ session_state.questions = Assigned(_parse_questions(stored_from.val).ret)
    /\ Reports(messages, "error: failed to generate questions and insights")

(***************************************************************************)
(* The missing API key and the upload.                                     *)
(***************************************************************************)
\* the latest action reached QuestionGenerator(): a direct call, or a click
\* that passed the checks of main.py lines 197-202
Constructing ==
    \/ request.via = "api"
    \/ /\ request.via = "ui"
       /\ request.difficulty_filter # <<>>
       /\ request.category_filter # <<>>
       /\ request.question_count <= 10

\* C11: with no API key in the environment, constructing QuestionGenerator
\* reports the error and stops: no client is created, no prompt is built,
\* no LLM call is made or pending, and nothing is stored or returned.
C11_NoKeyStops ==
    (~api_key /\ Constructing) =>
        /\ Reports(messages, "error: OpenAI API key not found")
        /\ ~client
        /\ pc = "idle"
        /\ llm_calls = 0
        /\ llm_outcome = "none"
        /\ prompt = NoPrompt
        /\ session_state = EmptySession
        /\ returned = Unset

\* a valid click in a session without the key: the error is on screen
C11_Witness ==
    /\ ~api_key
    /\ request.via = "ui"
    /\ Constructing
    /\ messages = <<"error: OpenAI API key not found">>
    /\ ~client

UploadErrors ==
    {"error: invalid file type", "error: file too large", "error: unsupported file format"}

\* C12: an uploaded file that is neither PDF nor Word OOXML, or is larger
\* than 10 MB, is rejected with a reported error: no text is extracted from
\* it, no resume text results and the Generate button (with the prompt and
\* the LLM call behind it) is not offered.
C12_InvalidUploadRejected ==
    (uploaded_file # NoFile
        /\ (uploaded_file.type \notin allowed_types \/ uploaded_file.size > max_size)) =>
        /\ \E i \in DOMAIN upload.messages : upload.messages[i] \in UploadErrors
        /\ ~upload.extracted
        /\ upload.resume_text = NoneText
        /\ ~upload.button

(***************************************************************************)
(* What a generation hands over.                                           *)
(***************************************************************************)
\* the questions of the latest generation: the ones a click stored, the
\* list a direct call returned
Delivered == IF request.via = "ui" THEN session_state.questions ELSE returned

\* C13: when the completion came back and the number of questions parsed
\* from it differs from the question_count the caller passed, a warning
\* about the different number is reported and the parsed questions are
\* handed over unchanged.
C13_MismatchWarned ==
    (pc = "idle" /\ llm_outcome = "returned") =>
        \A parsed \in {_parse_questions(response_content.val).ret} :
            (HasLen(parsed) /\ PyLen(parsed) # request.question_count) =>
                /\ Reports(messages, "warning: generated a different number of questions")
                /\ Delivered = Assigned(parsed)

NonEmptyStr(value) == value.t = "str" /\ value.v # <<>>

\* a decoded record with a category, a question text and a difficulty of the enum
ValidQuestion(record) ==
    /\ record.t = "obj"
    /\ NonEmptyStr(DictGet(record, Key_category, JVal("null", <<>>)))
    /\ NonEmptyStr(DictGet(record, Key_question, JVal("null", <<>>)))
    /\ DictGet(record, Key_difficulty, JVal("null", <<>>))
           \in {Str(Chars_Easy), Str(Chars_Medium), Str(Chars_Hard)}

AllValid(slot) ==
    (slot.set /\ slot.val.t = "arr") => \A i \in DOMAIN slot.val.v : ValidQuestion(slot.val.v[i])

\* C14: every question the parser handed over, stored by a click or
\* returned by a direct call, has a non-empty category, a non-empty
\* question text and a difficulty among Easy, Medium, Hard; a record of
\* the completion that lacks one of them is not among them.
C14_OnlyValidQuestions ==
    /\ AllValid(session_state.questions)
    /\ AllValid(returned)

\* the characters of a difficulty label of the sidebar
DifficultyChars(label) ==
    IF label = "Easy" THEN Chars_Easy ELSE IF label = "Medium" THEN Chars_Medium ELSE Chars_Hard

\* C17: the list QuestionGenerator.generate_questions returns has at most
\* question_count questions, each with a difficulty of difficulty_filter
\* and a category of category_filter.
C17_WithinRequest ==
    (request.via = "api" /\ returned.set /\ returned.val.t = "arr"
        /\ request.difficulty_filter # <<>> /\ request.category_filter # <<>>) =>
        /\ Len(returned.val.v) <= request.question_count
        /\ \A i \in DOMAIN returned.val.v :
              \E q \in {returned.val.v[i]} :
                  /\ q.t = "obj"
                  /\ \E j \in DOMAIN request.difficulty_filter :
                        DictGet(q, Key_difficulty, JVal("null", <<>>))
                            = Str(DifficultyChars(request.difficulty_filter[j]))
                  /\ \E j \in DOMAIN request.category_filter :
                        DictGet(q, Key_category, JVal("null", <<>>))
                            = Str(request.category_filter[j])

\* the resume text that was scored, and the one with the keyword added
ScoredText == JoinWords(score_words)

AddedText == WithKeyword(ScoredText, added.keyword, added.side)

\* C15: the skills-diversity score is monotonic: the score of the text
\* with a recognized skill keyword added (as a word of its own, before or
\* after the text) is never lower than the score of the original text.
C15_SkillsMonotonic ==
    pc = "rescored" => scores_added.skills_diversity >= scores.skills_diversity

\* a keyword that raised the score, and one added at the cap
C15_Witness ==
    /\ pc = "rescored"
    /\ scores.skills_diversity = 95
    /\ scores_added.skills_diversity = 100
    /\ added.keyword \notin extract_skills_from_text(ScoredText)

ScoreKeys == {"skills_diversity", "experience_level", "completeness", "overall"}

\* a score between 0 and 100, as an integer or as a quotient
InRange(score) == 0 <= score /\ score <= 100

QuotientInRange(q) == 0 <= q.num /\ q.num <= 100 * q.den

ScoresInRange(s) ==
    /\ DOMAIN s = ScoreKeys
    /\ InRange(s.skills_diversity)
    /\ InRange(s.experience_level)
    /\ InRange(s.completeness)
    /\ QuotientInRange(s.overall)

\* C16: calculate_resume_score returns the four keys skills_diversity,
\* experience_level, completeness and overall, each value between 0 and 100
\* inclusive, and skills_diversity is 5 for each distinct matched skill
\* string, capped at 100.
C16_ScoresInRange ==
    /\ pc = "scored" =>
          /\ ScoresInRange(scores)
          /\ \A n \in {Cardinality(extract_skills_from_text(ScoredText))} :
                scores.skills_diversity = IF n <= 20 THEN 5 * n ELSE 100
    /\ pc = "rescored" =>
          /\ ScoresInRange(scores_added)
          /\ \A n \in {Cardinality(extract_skills_from_text(AddedText))} :
                scores_added.skills_diversity = IF n <= 20 THEN 5 * n ELSE 100

\* more than twenty skills matched, and the score is at the cap
C16_Witness ==
    /\ pc = "rescored"
    /\ Cardinality(extract_skills_from_text(AddedText)) > 20
    /\ scores_added.skills_diversity = 100
    /\ scores_added.completeness = 0
    /\ scores.skills_diversity = 100

Levels == {"Senior", "Mid-level", "Junior"}

\* the words of the scored text are all drawn from the given words
OnlyWords(words) ==
    /\ Len(score_words) > 0
    /\ \A i \in DOMAIN score_words : score_words[i] \in words

KeywordsInWindow(items) == {i \in KeywordPositions(items) : ItemStart(items, i) < 20}

KeywordLabel(items, found) ==
    IF \E i \in found : items[i] \in EasyWords THEN "Easy"
    ELSE IF \E i \in found : items[i] \in HardWords THEN "Hard"
    ELSE "Medium"

\* the words that are a bare keyword and nothing more
BareKeywords == {w \in KeywordWords : StrUpper(w) \in {EASY, HARD, MEDIUM}}

\* C19: a payload without a bracketed marker is labelled by a bare keyword
\* EASY, HARD or MEDIUM, in any letter case, whose first occurrence starts
\* within the first 20 characters, trying Easy, then Hard, then Medium; a
\* keyword that starts at index 20 or later is ignored; and the matched
\* keyword is stripped from the cleaned text while the rest is kept.
C19_BareKeywordStripped ==
    (pc = "classified" /\ MarkerPositions(question_items) = {}) =>
        /\ KeywordsInWindow(question_items) # {} =>
              classified.difficulty =
                  KeywordLabel(question_items, KeywordsInWindow(question_items))
        /\ KeywordsInWindow(question_items) = {} => classified.difficulty = "None"
        /\ \A i \in KeywordsInWindow(question_items) :
              (KeywordPositions(question_items) = {i} /\ question_items[i] \in BareKeywords) =>
                  /\ ~classified.clean_question.isNone
                  /\ classified.clean_question.text = JoinItems(WithoutItem(question_items, i))

EasyPhrases ==
    {Phrase_what_is, Phrase_define, Phrase_explain, Phrase_describe, Phrase_basic,
     Phrase_fundamental}

HardPhrases ==
    {Phrase_design, Phrase_architecture, Phrase_optimize, Phrase_scale, Phrase_complex,
     Phrase_advanced, Phrase_implement}

\* the label of the content-only strategy
ContentDifficulty(question) ==
    IF \E phrase \in EasyPhrases : StrIn(phrase, StrLower(question)) THEN "Easy"
    ELSE IF \E phrase \in HardPhrases : StrIn(phrase, StrLower(question)) THEN "Hard"
    ELSE "Medium"

\* C20: the generator has a content-only difficulty strategy next to the
\* marker extraction, _estimate_difficulty: a question is Easy if it contains
\* any of 'what is', 'define', 'explain', 'describe', 'basic', 'fundamental';
\* else Hard if it contains any of 'design', 'architecture', 'optimize',
\* 'scale', 'complex', 'advanced', 'implement'; else Medium.
C20_ContentStrategy ==
    (pc = "called" /\ method_call.name = "_estimate_difficulty") =>
        /\ method_result.raised = "none"
        /\ method_result.ret = ContentDifficulty(JoinWords(method_call.phrases))

(***************************************************************************)
(* Properties of the prompt (Spec).                                        *)
(***************************************************************************)
\* the example is one block for each category, in the order of the
\* categories, blocks separated by an empty line, each block headed by the
\* upper-cased category and a colon
RECURSIVE BlocksInOrder(_, _)
BlocksInOrder(example, categories) ==
    IF Len(categories) = 0 THEN example = <<>>
    ELSE /\ StartsAt(example, StrUpper(categories[1]) \o <<":">>, 1)
         /\ \E sep \in {StrFind(example, <<"\n", "\n">>)} :
               IF Len(categories) = 1 THEN sep = -1
               ELSE /\ sep >= 0
                    /\ BlocksInOrder(SubSeq(example, sep + 3, Len(example)), Tail(categories))

\* the levels of which the text shows a bracketed marker
LevelsShown(example) ==
    {DifficultyOptions[i] : i \in {j \in DOMAIN DifficultyOptions :
        StrIn(Bracketed(StrUpper(DifficultyChars(DifficultyOptions[j]))), example)}}

LevelsSelected(difficulty_filter) == {difficulty_filter[i] : i \in DOMAIN difficulty_filter}

\* C21: the format example of the prompt has one block for each entry of
\* category_filter, in filter order, each headed by the upper-cased category
\* and ':', and shows no [EASY], [MEDIUM] or [HARD] marker of a level that
\* is not in difficulty_filter.
C21_ExampleFollowsFilters ==
    prompt.built =>
        /\ BlocksInOrder(prompt.format_example, prompt.category_filter)
        /\ LevelsShown(prompt.format_example) \subseteq LevelsSelected(prompt.difficulty_filter)

(***************************************************************************)
(* Properties of the resume in the prompt (SpecPrompt).                    *)
(***************************************************************************)
\* C22: the resume embedded in the prompt is exactly the first
\* min(len(resume_text), 5000) characters of resume_text: no character past
\* the budget is kept, and a resume within the budget is embedded whole.
C22_ResumePrefix ==
    pc = "prompted" =>
        /\ Len(prompt.resume) <= 5000
        /\ Len(resume_text) <= 5000 => prompt.resume = resume_text
        /\ Len(resume_text) > 5000 =>
              /\ Len(prompt.resume) = 5000
              /\ \A i \in 1..5000 : prompt.resume[i] = resume_text[i]

\* a resume of three characters more than the budget was cut
C22_Witness ==
    /\ pc = "prompted"
    /\ Len(resume_text) = 5003
    /\ Len(prompt.resume) = 5000
    /\ prompt.resume[5000] = resume_text[5000]

(***************************************************************************)
(* Properties of the generation paths (Spec).                              *)
(***************************************************************************)
CodingTestRequested(category_filter) ==
    \E i \in DOMAIN category_filter : category_filter[i] = Cat_CodingTest

\* the prompt as the builder returned it
BuilderPrompt(sent) == [sent EXCEPT !.coding_test_instruction = FALSE]

\* C23: on every path that sends a prompt, the coding-test instruction is
\* appended to the prompt exactly when 'Coding Test' is in category_filter;
\* when it is not, the prompt sent is the builder's prompt unchanged.
C23_CodingTestInstruction ==
    prompt.built =>
        /\ prompt.coding_test_instruction <=> CodingTestRequested(request.category_filter)
        /\ BuilderPrompt(prompt) =
               _create_question_prompt(resume_text, prompt.question_count,
                                       request.difficulty_filter, request.category_filter)

(***************************************************************************)
(* Properties of the result of clean_text (SpecClean).                     *)
(***************************************************************************)
IsSpace(s, i) == i \in DOMAIN s /\ s[i] \in Whitespace

\* C24: the result of clean_text has no leading and no trailing whitespace,
\* also when the input ends with a bullet glyph or a hyphen; the result of
\* an empty input is the empty string.
C24_Trimmed ==
    pc = "cleaned" =>
        /\ ~IsSpace(cleaned, 1)
        /\ ~IsSpace(cleaned, Len(cleaned))
        /\ text = <<>> => cleaned = <<>>

\* a character that is neither whitespace nor a marker or glyph
IsWord(s, i) == i \in DOMAIN s /\ s[i] \notin Whitespace \cup ListMarkers \cup {BlackCircle}

\* the list markers of the text with text somewhere on both sides
MarkersInside(s) ==
    {i \in DOMAIN s : /\ s[i] \in ListMarkers
                      /\ \E j \in 1..(i - 1) : IsWord(s, j)
                      /\ \E j \in (i + 1)..Len(s) : IsWord(s, j)}

OnlyBullet(s) == \A i \in DOMAIN s : s[i] # BlackCircle

\* C25: in the result both bullet glyphs appear only as the
\* bullet, and every bullet or hyphen with text on both sides has exactly
\* one space immediately before it and exactly one immediately after it,
\* also when the input had no whitespace next to the marker.
C25_OneSpaceAround ==
    pc = "cleaned" =>
        /\ OnlyBullet(cleaned)
        /\ \A i \in MarkersInside(cleaned) :
              /\ cleaned[i - 1] = " " /\ ~IsSpace(cleaned, i - 2)
              /\ cleaned[i + 1] = " " /\ ~IsSpace(cleaned, i + 2)

(***************************************************************************)
(* Properties of the calls to the LLM service (Spec).                      *)
(***************************************************************************)
Calling == {"ui_llm", "api_llm"}

\* C26: each generation action makes at most one call to the LLM service: a
\* call is made only by the step of a user action, the step that ends a
\* call, failed or not, makes no other call, and a second call needs a new
\* user action.
C26_OneCallPerAction ==
    [][/\ llm_calls' <= 1
       /\ pc' \in Calling => (pc = "idle" /\ request'.via # "none" /\ llm_calls' = 1)
       /\ pc \in Calling => (pc' = "idle" /\ llm_calls' = llm_calls)]_vars

\* the call of the class method raised and the method returned, one call made
C26_Witness ==
    /\ pc = "idle"
    /\ request.via = "api"
    /\ llm_outcome = "raised"
    /\ llm_calls = 1
    /\ returned = Assigned(EmptyList)

(***************************************************************************)
(* What one run of the page shows of the store: main.py lines 206-210 and  *)
(* display_questions, lines 279-337.                                       *)
(***************************************************************************)
\* bool(value) of an object json.loads decoded
Truthy(value) ==
    IF value.t \in {"arr", "obj", "str"} THEN Len(value.v) > 0
    ELSE IF value.t = "num"
         THEN \E i \in DOMAIN value.v :
                  /\ value.v[i] \in Digits \ {"0"}
                  /\ \A j \in 1..i : value.v[j] \notin {"e", "E"}
    ELSE value.t \notin {"null", "false"}

HasKey(record, key) == \E i \in DOMAIN record.v : record.v[i].k = key

Key_test_cases == <<"t", "e", "s", "t", "_", "c", "a", "s", "e", "s">>

\* lines 289-319 go through for one element of the list: question['category']
\* is a key of the dict categories, question['difficulty'].lower() is
\* called, question['question'] is read and test_cases, if there, is looped over
Renders(question) ==
    /\ question.t = "obj"
    /\ HasKey(question, Key_category)
    /\ DictGet(question, Key_category, EmptyList).t \notin {"arr", "obj"}
    /\ HasKey(question, Key_difficulty)
    /\ DictGet(question, Key_difficulty, EmptyList).t = "str"
    /\ HasKey(question, Key_question)
    /\ DictGet(question, Key_test_cases, EmptyList).t \in {"arr", "obj", "str"}

NothingShown ==
    [questions |-> FALSE, insights |-> FALSE, ats_suggestions |-> FALSE, raised |-> FALSE]

\* a slot of st.session_state that is there and true (lines 207, 321, 325)
Stored(slot) == slot.set /\ Truthy(slot.val)

\* display_questions(questions): the warning of lines 283-285 for an empty
\* list; an exception of the loops leaves the function before the cards are
\* all drawn; the insights and the suggestions come after the cards (lines
\* 321-328; insights is a dict or None, suggestions a list or a str here)
display_questions(questions, store) ==
    IF ~Truthy(questions) THEN NothingShown
    ELSE IF questions.t # "arr" \/ \E i \in DOMAIN questions.v : ~Renders(questions.v[i])
         THEN [NothingShown EXCEPT !.raised = TRUE]
    ELSE [questions |-> TRUE,
          insights |-> Stored(store.resume_insights),
          ats_suggestions |-> Stored(store.ats_suggestions),
          raised |-> FALSE]

\* main.py lines 206-210, reached with a parsed resume (lines 162, 176)
Page(text_of_resume, store) ==
    IF text_of_resume # <<>> /\ Stored(store.questions)
    THEN display_questions(store.questions.val, store)
    ELSE NothingShown

\* C27: whatever part of the stored batch is non-empty is on the page:
\* stored questions, stored insights and stored ATS suggestions are each
\* shown when they are not empty, whether or not the other parts are empty.
C27_SalvageShown ==
    pc = "idle" =>
        \E page \in {Page(resume_text, session_state)} :
            /\ Stored(session_state.questions) => page.questions
            /\ Stored(session_state.resume_insights) => page.insights
            /\ Stored(session_state.ats_suggestions) => page.ats_suggestions
====
